---------------------------- MODULE Spec2Model ----------------------------
(***************************************************************************)
(* A model of the space planner's geometry kernel (src/src/geometry.ts),   *)
(* of the Canvas interaction state machine and viewport controller (the    *)
(* Canvas component, src/src/App.tsx lines 1012-1993) and of the App       *)
(* handlers the Canvas and the Properties panel call (src/src/App.tsx      *)
(* lines 144-439, src/src/PropertiesPanel.tsx).                            *)
(*                                                                         *)
(* Numbers.  World coordinates are integers (tenths of an inch), as in the *)
(* code.  The code's real-valued quantities are kept in fixed point:       *)
(*   viewport.offsetX/offsetY   hundredths of an inch                      *)
(*   viewport.scale/baseScale   hundredths of a pixel per inch             *)
(*   viewport.zoomLevel         thousandths                                *)
(*   rotations and angles       whole degrees                              *)
(*   screen coordinates         whole pixels                               *)
(* Math.round is Round (half up), Math.sqrt is ISqrt (floor), sin and cos  *)
(* come from a table of sin(d) * 100000, and JavaScript's % is JsMod.      *)
(***************************************************************************)
EXTENDS Integers, Sequences, FiniteSets, TLC

VARIABLES
    space,                  \* currentVariation.space.outline.points
    objects,                \* currentVariation.objects
    selectedObjectId,       \* projectsState.selectedObjectId
    polygonEditState,       \* App: polygonEditState
    viewport,               \* Canvas: viewport
    mode,                   \* Canvas: mode
    dragStart,              \* Canvas: dragStart
    draggedObjectId,        \* Canvas: draggedObjectId
    dragObjectStartPos,     \* Canvas: dragObjectStartPos
    rotationStartAngle,     \* Canvas: rotationStartAngle
    initialPinchDistance,   \* Canvas: initialPinchDistance
    initialPinchZoom,       \* Canvas: initialPinchZoom
    initialPinchWorldPoint, \* Canvas: initialPinchWorldPoint
    vertexDragStart,        \* Canvas: vertexDragStart
    touches,                \* the number of fingers on the canvas (e.touches.length)
    steps,                  \* the number of events handled so far
    probe                   \* the last observed call: its input and, for a function, its result

vars == <<space, objects, selectedObjectId, polygonEditState, viewport, mode,
          dragStart, draggedObjectId, dragObjectStartPos, rotationStartAngle,
          initialPinchDistance, initialPinchZoom, initialPinchWorldPoint,
          vertexDragStart, touches, steps, probe>>

canvasVars == <<mode, dragStart, draggedObjectId, dragObjectStartPos,
                rotationStartAngle, vertexDragStart>>

pinchVars == <<initialPinchDistance, initialPinchZoom, initialPinchWorldPoint>>

docVars == <<space, objects, selectedObjectId>>

-----------------------------------------------------------------------------
(* Values *)

\* null, and a non-null value v, of a nullable field
Null == <<>>
Some(v) == <<v>>
Val(o) == o[1]

\* a null vertex or edge index (indexes are 0-based, as in the code)
NoIndex == 0 - 1

Pt(px, py) == [x |-> px, y |-> py]

Abs(n) == IF n < 0 THEN 0 - n ELSE n
Min(a, b) == IF a < b THEN a ELSE b
Max(a, b) == IF a > b THEN a ELSE b

\* Math.round(n / d) for d > 0: the nearest integer, halves rounded up
Round(n, d) == (2 * n + d) \div (2 * d)

\* JavaScript's a % n for n > 0: the result has the sign of a
JsMod(a, n) == IF a >= 0 THEN a % n ELSE 0 - ((0 - a) % n)

RECURSIVE SqrtSearch(_, _, _)
SqrtSearch(n, lo, hi) ==
    IF lo >= hi THEN lo
    ELSE LET mid == (lo + hi + 1) \div 2
         IN  IF mid * mid <= n THEN SqrtSearch(n, mid, hi)
                               ELSE SqrtSearch(n, lo, mid - 1)

\* floor(Math.sqrt(n))
ISqrt(n) == SqrtSearch(n, 0, 46340)

\* sin(d degrees) * 100000 for d in 0..90
SinTable ==
  << 0, 1745, 3490, 5234, 6976, 8716, 10453, 12187, 13917, 15643,
     17365, 19081, 20791, 22495, 24192, 25882, 27564, 29237, 30902, 32557,
     34202, 35837, 37461, 39073, 40674, 42262, 43837, 45399, 46947, 48481,
     50000, 51504, 52992, 54464, 55919, 57358, 58779, 60182, 61566, 62932,
     64279, 65606, 66913, 68200, 69466, 70711, 71934, 73135, 74314, 75471,
     76604, 77715, 78801, 79864, 80902, 81915, 82904, 83867, 84805, 85717,
     86603, 87462, 88295, 89101, 89879, 90631, 91355, 92050, 92718, 93358,
     93969, 94552, 95106, 95630, 96126, 96593, 97030, 97437, 97815, 98163,
     98481, 98769, 99027, 99255, 99452, 99619, 99756, 99863, 99939, 99985,
     100000 >>

\* Math.sin and Math.cos of a whole number of degrees, times 100000
Sin(deg) ==
    LET sin(d) == IF d <= 90 THEN SinTable[d + 1]
                  ELSE IF d <= 180 THEN SinTable[180 - d + 1]
                  ELSE IF d <= 270 THEN 0 - SinTable[d - 180 + 1]
                  ELSE 0 - SinTable[360 - d + 1]
    IN  sin(deg % 360)

Cos(deg) == Sin(deg + 90)

\* Math.atan2(dy, dx) * (180 / Math.PI), to the nearest degree, in (-180, 180]
Atan2Deg(dy, dx) ==
    IF dx = 0 /\ dy = 0 THEN 0
    ELSE LET dot(d) == dx * Cos(d) + dy * Sin(d)
             peak(here, next, before) == here > 0 /\ here >= next /\ here > before
             signed(best) == IF best > 180 THEN best - 360 ELSE best
         IN  signed(CHOOSE d \in 0..359 : peak(dot(d), dot(d + 1), dot(d + 359)))

-----------------------------------------------------------------------------
(* geometry.ts *)

\* the effective scale viewport.scale * viewport.zoomLevel, in hundredths of a
\* pixel per inch
ScaleZoom(v) == (v.scale * v.zoomLevel) \div 1000

worldToScreen(point, v) ==
    Pt(Round((point.x * 10 + v.offsetX) * ScaleZoom(v), 10000),
       Round((point.y * 10 + v.offsetY) * ScaleZoom(v), 10000))

screenToWorld(sx, sy, v) ==
    LET world(viewX, viewY) == Pt(Round(viewX - v.offsetX, 10), Round(viewY - v.offsetY, 10))
    IN  world(Round(sx * 10000, ScaleZoom(v)), Round(sy * 10000, ScaleZoom(v)))

\* the mutant of Intersect that also counts an edge the point is on
IntersectClosed(point, pi, pj) ==
    /\ (pi.y > point.y) # (pj.y > point.y)
    /\ LET num == (pj.x - pi.x) * (point.y - pi.y)
           den == pj.y - pi.y
       IN  IF den > 0 THEN (point.x - pi.x) * den <= num
                      ELSE (point.x - pi.x) * den >= num

\* the edge from points[j] to points[i] is crossed by the ray from point
Intersect(point, pi, pj) ==
    /\ (pi.y > point.y) # (pj.y > point.y)
    /\ LET num == (pj.x - pi.x) * (point.y - pi.y)
           den == pj.y - pi.y
       IN  IF den > 0 THEN (point.x - pi.x) * den < num
                      ELSE (point.x - pi.x) * den > num

\* the mutant of isPointInPolygon that takes every point to be in a polygon of
\* fewer than three points
isPointInPolygonDegenerateInside(point, points) ==
    IF Len(points) < 3 THEN TRUE
    ELSE LET n == Len(points)
             prev(i) == IF i = 1 THEN n ELSE i - 1
             crossings == {i \in 1..n : Intersect(point, points[i], points[prev(i)])}
         IN  Cardinality(crossings) % 2 = 1

isPointInPolygon(point, points) ==
    IF Len(points) < 3 THEN FALSE
    ELSE LET n == Len(points)
             prev(i) == IF i = 1 THEN n ELSE i - 1
             crossings == {i \in 1..n : Intersect(point, points[i], points[prev(i)])}
         IN  Cardinality(crossings) % 2 = 1

rotatePoint(point, angle) ==
    LET rotated(cos, sin) == Pt(Round(point.x * cos - point.y * sin, 100000),
                                Round(point.x * sin + point.y * cos, 100000))
    IN  rotated(Cos(angle), Sin(angle))

getObjectWorldPolygon(obj) ==
    LET translated(rotated) ==
            Pt(rotated.x + obj.position.x, rotated.y + obj.position.y)
    IN  [i \in 1..Len(obj.shape) |-> translated(rotatePoint(obj.shape[i], obj.rotation))]

RECURSIVE SeqMinY(_, _)
SeqMinY(points, i) ==
    IF i > Len(points) THEN 1000000
    ELSE Min(points[i].y, SeqMinY(points, i + 1))

getRotationHandlePosition(obj, v) ==
    LET above(topPoint) == Pt(topPoint.x, topPoint.y - 30)
    IN  above(worldToScreen(Pt(obj.position.x, SeqMinY(getObjectWorldPolygon(obj), 1)), v))

\* the mutant of isPointOnRotationHandle that tests the top of the object and
\* not the handle 30 pixels above it
isPointOnRotationHandleAtTop(screenPoint, obj, v) ==
    LET within(dx, dy) == dx * dx + dy * dy <= 16 * 16
        near(topPoint) == within(screenPoint.x - topPoint.x, screenPoint.y - topPoint.y)
    IN  near(worldToScreen(Pt(obj.position.x, SeqMinY(getObjectWorldPolygon(obj), 1)), v))

isPointOnRotationHandle(screenPoint, obj, v) ==
    LET within(dx, dy) == dx * dx + dy * dy <= 16 * 16
        near(handlePos) == within(screenPoint.x - handlePos.x, screenPoint.y - handlePos.y)
    IN  near(getRotationHandlePosition(obj, v))

calculateRotationAngle(center, mousePoint) ==
    JsMod(Atan2Deg(mousePoint.y - center.y, mousePoint.x - center.x) + 360, 360)

\* the mutant of RotationStart that leaves out the object's rotation
RotationStartOfPointerOnly(selectedObject, worldPoint) ==
    calculateRotationAngle(selectedObject.position, worldPoint)

\* the value a press on the rotation handle gives to rotationStartAngle
RotationStart(selectedObject, worldPoint) ==
    calculateRotationAngle(selectedObject.position, worldPoint) - selectedObject.rotation

\* the indexes of objects sorted by zIndex descending; Array.prototype.sort is
\* stable, so equal zIndexes keep the array's order
ZOrder(objs) ==
    [k \in 1..Len(objs) |->
        CHOOSE i \in 1..Len(objs) :
            Cardinality({j \in 1..Len(objs) :
                \/ objs[j].zIndex > objs[i].zIndex
                \/ objs[j].zIndex = objs[i].zIndex /\ j < i}) = k - 1]

\* the mutant of findObjectAtPoint that tests the object of the highest zIndex
\* only
findObjectAtPointTopOnly(worldPoint, objs) ==
    LET top(sorted) ==
            IF Len(objs) = 0 THEN 0
            ELSE IF isPointInPolygon(worldPoint, getObjectWorldPolygon(objs[sorted[1]]))
            THEN sorted[1] ELSE 0
    IN  top(ZOrder(objs))

\* the mutant of findObjectAtPoint that takes the objects in list order and
\* not by descending zIndex
findObjectAtPointInListOrder(worldPoint, objs) ==
    LET first(hits) ==
            IF hits = {} THEN 0
            ELSE CHOOSE k \in hits : \A h \in hits : k <= h
    IN  first({k \in 1..Len(objs) :
                  isPointInPolygon(worldPoint, getObjectWorldPolygon(objs[k]))})

\* the index in objects of the object found, 0 for null
findObjectAtPoint(worldPoint, objs) ==
    LET first(sorted, hits) ==
            IF hits = {} THEN 0
            ELSE sorted[CHOOSE k \in hits : \A h \in hits : k <= h]
        search(sorted) ==
            first(sorted,
                  {k \in 1..Len(objs) :
                      isPointInPolygon(worldPoint, getObjectWorldPolygon(objs[sorted[k]]))})
    IN  search(ZOrder(objs))

\* the mutant of isObjectInsideSpace that tests the object's position and not
\* the vertices of its world polygon
isObjectInsideSpaceCentre(obj, outline) == isPointInPolygon(obj.position, outline)

\* the mutant of isObjectInsideSpace that is satisfied by one vertex inside
isObjectInsideSpaceAnyVertex(obj, outline) ==
    LET some(worldPolygon) ==
            \E i \in 1..Len(worldPolygon) : isPointInPolygon(worldPolygon[i], outline)
    IN  some(getObjectWorldPolygon(obj))

isObjectInsideSpace(obj, outline) ==
    LET every(worldPolygon) ==
            \A i \in 1..Len(worldPolygon) : isPointInPolygon(worldPolygon[i], outline)
    IN  every(getObjectWorldPolygon(obj))

createRectangle(widthInches, heightInches) ==
    LET w == (widthInches * 10) \div 2
        h == (heightInches * 10) \div 2
    IN  << Pt(0 - w, 0 - h), Pt(w, 0 - h), Pt(w, h), Pt(0 - w, h) >>

RECURSIVE SeqMinX(_, _)
SeqMinX(points, i) ==
    IF i > Len(points) THEN 1000000
    ELSE Min(points[i].x, SeqMinX(points, i + 1))

RECURSIVE SeqMaxX(_, _)
SeqMaxX(points, i) ==
    IF i > Len(points) THEN 0 - 1000000
    ELSE Max(points[i].x, SeqMaxX(points, i + 1))

RECURSIVE SeqMaxY(_, _)
SeqMaxY(points, i) ==
    IF i > Len(points) THEN 0 - 1000000
    ELSE Max(points[i].y, SeqMaxY(points, i + 1))

getPolygonBounds(points) ==
    [minX |-> SeqMinX(points, 1), minY |-> SeqMinY(points, 1),
     maxX |-> SeqMaxX(points, 1), maxY |-> SeqMaxY(points, 1)]

\* the mutant of constrainPositionToSpace that tries the Y-only candidate
\* before the X-only one
constrainPositionYFirst(obj, desiredPosition, outline) ==
    LET xOnlyPosition == Pt(desiredPosition.x, obj.position.y)
        yOnlyPosition == Pt(obj.position.x, desiredPosition.y)
    IN  IF isObjectInsideSpace([obj EXCEPT !.position = desiredPosition], outline)
            THEN desiredPosition
        ELSE IF isObjectInsideSpace([obj EXCEPT !.position = yOnlyPosition], outline)
            THEN yOnlyPosition
        ELSE IF isObjectInsideSpace([obj EXCEPT !.position = xOnlyPosition], outline)
            THEN xOnlyPosition
        ELSE obj.position

\* the mutant of constrainPositionToSpace that clamps the desired position to
\* the bounding box of the outline
constrainPositionClamped(obj, desiredPosition, outline) ==
    LET clamped(bounds) ==
            Pt(Max(bounds.minX, Min(bounds.maxX, desiredPosition.x)),
               Max(bounds.minY, Min(bounds.maxY, desiredPosition.y)))
    IN  clamped(getPolygonBounds(outline))

\* the mutant of constrainPositionToSpace that commits the desired position
\* as it is
constrainPositionUnchecked(obj, desiredPosition, outline) == desiredPosition

constrainPositionToSpace(obj, desiredPosition, outline) ==
    LET xOnlyPosition == Pt(desiredPosition.x, obj.position.y)
        yOnlyPosition == Pt(obj.position.x, desiredPosition.y)
    IN  IF isObjectInsideSpace([obj EXCEPT !.position = desiredPosition], outline)
            THEN desiredPosition
        ELSE IF isObjectInsideSpace([obj EXCEPT !.position = xOnlyPosition], outline)
            THEN xOnlyPosition
        ELSE IF isObjectInsideSpace([obj EXCEPT !.position = yOnlyPosition], outline)
            THEN yOnlyPosition
        ELSE obj.position

-----------------------------------------------------------------------------
(* The document and the canvas container *)

\* containerRef.current.clientWidth and clientHeight, in pixels
ContainerWidth == 864
ContainerHeight == 720

\* no object id (selectedObjectId and draggedObjectId are string | null)
NullId == "null"

\* getDefaultState: a 12' x 10' room and a 6' x 3' sofa
DefaultOutline == << Pt(0, 0), Pt(1440, 0), Pt(1440, 1200), Pt(0, 1200) >>

DefaultSofa ==
    [id |-> "obj-initial-sofa",
     shape |-> << Pt(0 - 360, 0 - 180), Pt(360, 0 - 180), Pt(360, 180), Pt(0 - 360, 180) >>,
     position |-> Pt(720, 600), rotation |-> 0, zIndex |-> 1]

\* ObjectPalette.handleAddRectangle: a rectangle at the room's centre
PaletteRectangle(widthInches, heightInches, z) ==
    [id |-> "obj-rect",
     shape |-> createRectangle(widthInches, heightInches),
     position |-> Pt(720, 600), rotation |-> 0, zIndex |-> z]

\* the index in objects of the object with this id, 0 when there is none
\* (objects.find(o => o.id === id))
ObjIndex(id) ==
    IF \E i \in 1..Len(objects) : objects[i].id = id
    THEN CHOOSE i \in 1..Len(objects) :
            objects[i].id = id /\ \A j \in 1..(i - 1) : objects[j].id # id
    ELSE 0

\* the fit-to-space viewport of resetViewport for an outline
FitViewport(outline) ==
    LET fitted(bounds, spaceWidth, spaceHeight, baseScale) ==
            [offsetX |-> Round(Round(ContainerWidth * 10000, baseScale) - spaceWidth * 10, 2)
                            - bounds.minX * 10,
             offsetY |-> Round(Round(ContainerHeight * 10000, baseScale) - spaceHeight * 10, 2)
                            - bounds.minY * 10,
             baseScale |-> baseScale,
             scale |-> baseScale,
             zoomLevel |-> 1000]
        scaled(bounds, spaceWidth, spaceHeight) ==
            fitted(bounds, spaceWidth, spaceHeight,
                   Min(Round(ContainerWidth * 10000, spaceWidth * 12),
                       Round(ContainerHeight * 10000, spaceHeight * 12)))
        sized(bounds) ==
            scaled(bounds, bounds.maxX - bounds.minX, bounds.maxY - bounds.minY)
    IN  sized(getPolygonBounds(outline))

\* the bounding box of the outline has a positive width and height, so that
\* resetViewport divides by no zero
FitDefined(outline) ==
    LET positive(bounds) == bounds.maxX > bounds.minX /\ bounds.maxY > bounds.minY
    IN  positive(getPolygonBounds(outline))

\* the ref viewportInitialized: the mount effect has run, and it is the only
\* one to write the ref
viewportInitialized == TRUE

\* the mutant of FitOnSpaceChange that fits the view to every new outline and
\* keeps the zoom level
FitOnEverySpaceChange(v, outline) ==
    IF outline = space \/ ~FitDefined(outline) THEN v
    ELSE [FitViewport(outline) EXCEPT !.zoomLevel = v.zoomLevel]

\* the mutant of FitOnSpaceChange that resets the view for every new outline
FitOnSpaceChangeReset(v, outline) ==
    IF outline = space \/ ~FitDefined(outline) THEN v ELSE FitViewport(outline)

\* the effect that runs after a render with a new space (resetViewport
\* depends on space): it fits the view only while the ref is not set
FitOnSpaceChange(v, outline) ==
    IF viewportInitialized THEN v ELSE FitViewport(outline)

-----------------------------------------------------------------------------
(* Canvas: polygon editing helpers *)

PES == Val(polygonEditState)

NewEditState(target) ==
    [target |-> target, hoveredVertexIndex |-> NoIndex, hoveredEdgeIndex |-> NoIndex,
     draggedVertexIndex |-> NoIndex, measurementEdgeIndex |-> NoIndex]

SpaceTarget == [type |-> "space", objectId |-> NullId]
ObjectTarget(id) == [type |-> "object", objectId |-> id]

\* Null, or Some(points)
getEditingPolygonWorldPoints ==
    IF polygonEditState = Null THEN Null
    ELSE IF PES.target.type = "space" THEN Some(space)
    ELSE LET i == ObjIndex(PES.target.objectId)
         IN  IF i = 0 THEN Null ELSE Some(getObjectWorldPolygon(objects[i]))

\* the 0-based index of the first vertex within 10 pixels, or NoIndex
findVertexAtPoint(screenPoint) ==
    LET within(dx, dy) == dx * dx + dy * dy <= 10 * 10
        near(screenPos) == within(screenPos.x - screenPoint.x, screenPos.y - screenPoint.y)
        first(hits) == IF hits = {} THEN NoIndex
                       ELSE (CHOOSE i \in hits : \A j \in hits : i <= j) - 1
        search(pts) == first({i \in 1..Len(pts) : near(worldToScreen(pts[i], viewport))})
        find(worldPoints) == IF worldPoints = Null THEN NoIndex ELSE search(Val(worldPoints))
    IN  find(getEditingPolygonWorldPoints)

\* the 0-based index of the first edge within 8 pixels, or NoIndex
findEdgeAtPoint(screenPoint) ==
    LET \* the distance cross / sqrt(lenSq) is at most 8, that is
        \* (8 * root + rest)^2 <= 64 * lenSq
        close(lenSq, root, rest) ==
            \/ rest <= 0
            \/ /\ rest < 8
               /\ 16 * root * rest + rest * rest <= 64 * (lenSq - root * root)
        rooted(lenSq, cross, root) == close(lenSq, root, cross - 8 * root)
        measured(dot, lenSq, cross) ==
            /\ lenSq # 0
            /\ dot >= 0
            /\ dot <= lenSq
            /\ rooted(lenSq, cross, ISqrt(lenSq))
        projected(A, B, C, D) ==
            measured(A * C + B * D, C * C + D * D, Abs(A * D - B * C))
        hit(s1, s2) ==
            projected(screenPoint.x - s1.x, screenPoint.y - s1.y, s2.x - s1.x, s2.y - s1.y)
        first(hits) == IF hits = {} THEN NoIndex
                       ELSE (CHOOSE i \in hits : \A j \in hits : i <= j) - 1
        search(pts) ==
            first({i \in 1..Len(pts) :
                      hit(worldToScreen(pts[i], viewport),
                          worldToScreen(pts[(i % Len(pts)) + 1], viewport))})
        find(worldPoints) == IF worldPoints = Null THEN NoIndex ELSE search(Val(worldPoints))
    IN  find(getEditingPolygonWorldPoints)

\* a world point in the local coordinates of obj (inverse translate and rotate)
toLocal(p, obj) ==
    LET local(dx, dy, cos, sin) == Pt(Round(dx * cos - dy * sin, 100000),
                                      Round(dx * sin + dy * cos, 100000))
    IN  local(p.x - obj.position.x, p.y - obj.position.y,
              Cos(0 - obj.rotation), Sin(0 - obj.rotation))

\* the mutant of InsertAt that puts point in the place of the point at index at
InsertAtReplacing(points, at, point) ==
    [i \in 1..Len(points) |-> IF i = (at % Len(points)) + 1 THEN point ELSE points[i]]

\* newPoints with point inserted so that it gets the 0-based index at
InsertAt(points, at, point) ==
    [i \in 1..(Len(points) + 1) |->
        IF i <= at THEN points[i]
        ELSE IF i = at + 1 THEN point
        ELSE points[i - 1]]

-----------------------------------------------------------------------------
(* App: the handlers the Canvas calls *)

handleUpdateObjectPosition(id, position) ==
    objects' = [i \in 1..Len(objects) |->
                  IF objects[i].id = id THEN [objects[i] EXCEPT !.position = position]
                  ELSE objects[i]]

handleUpdateObjectRotation(id, rotation) ==
    LET i == ObjIndex(id)
    IN  IF i = 0 THEN UNCHANGED objects
        ELSE IF ~isObjectInsideSpace([objects[i] EXCEPT !.rotation = rotation], space)
        THEN UNCHANGED objects
        ELSE objects' = [j \in 1..Len(objects) |->
                            IF objects[j].id = id
                            THEN [objects[j] EXCEPT !.rotation = rotation]
                            ELSE objects[j]]

handleUpdateObjectShape(id, shape) ==
    objects' = [i \in 1..Len(objects) |->
                  IF objects[i].id = id THEN [objects[i] EXCEPT !.shape = shape]
                  ELSE objects[i]]

\* the mutant of UpdateEditedPolygon that keeps the outline when the new one
\* would leave an object outside the room
UpdateEditedPolygonInsideOnly(newPoints) ==
    IF PES.target.type = "space"
    THEN /\ space' = IF \A k \in 1..Len(objects) : isObjectInsideSpace(objects[k], newPoints)
                     THEN newPoints ELSE space
         /\ UNCHANGED objects
    ELSE LET i == ObjIndex(PES.target.objectId)
         IN  /\ UNCHANGED space
             /\ IF i = 0 THEN UNCHANGED objects
                ELSE handleUpdateObjectShape(PES.target.objectId,
                        [k \in 1..Len(newPoints) |-> toLocal(newPoints[k], objects[i])])

\* the write of newPoints (world coordinates) to the polygon being edited
UpdateEditedPolygon(newPoints) ==
    IF PES.target.type = "space"
    THEN space' = newPoints /\ UNCHANGED objects
    ELSE LET i == ObjIndex(PES.target.objectId)
         IN  /\ UNCHANGED space
             /\ IF i = 0 THEN UNCHANGED objects
                ELSE handleUpdateObjectShape(PES.target.objectId,
                        [k \in 1..Len(newPoints) |-> toLocal(newPoints[k], objects[i])])

-----------------------------------------------------------------------------
(* Canvas: mouse handlers.  Each handler is given as its effect on the     *)
(* document, the edit state, the viewport and the Canvas state; the        *)
(* mousePosition state, which only triggers a redraw, is left out.         *)

\* screen deltas as world units added to an anchor: Math.round(anchor +
\* d / (viewport.scale * viewport.zoomLevel) * 10)
\* the mutant of AnchorPlusDelta that adds the screen delta without scaling it
AnchorPlusDeltaUnscaled(anchor, d, v) == anchor + d

AnchorPlusDelta(anchor, d, v) == Round(anchor * ScaleZoom(v) + d * 1000, ScaleZoom(v))

handleMouseDown(screenPoint, shiftKey) ==
    LET press(vertexIndex, edgeIndex, selectedObject, worldPoint, clickedObject,
              worldPoints) ==
        IF polygonEditState # Null /\ vertexIndex # NoIndex THEN
            /\ mode' = "dragging-vertex"
            /\ IF worldPoints # Null
               THEN /\ vertexDragStart' = Some(Val(worldPoints)[vertexIndex + 1])
                    /\ polygonEditState' =
                          Some([PES EXCEPT !.draggedVertexIndex = vertexIndex,
                                           !.measurementEdgeIndex = NoIndex])
               ELSE UNCHANGED <<vertexDragStart, polygonEditState>>
            /\ dragStart' = Some(screenPoint)
            /\ UNCHANGED <<docVars, viewport, draggedObjectId, dragObjectStartPos,
                           rotationStartAngle>>
        ELSE IF polygonEditState # Null /\ edgeIndex # NoIndex THEN
            /\ IF shiftKey
               THEN /\ IF worldPoints # Null
                       THEN UpdateEditedPolygon(
                                InsertAt(Val(worldPoints), edgeIndex + 1, worldPoint))
                       ELSE UNCHANGED <<space, objects>>
                    /\ UNCHANGED polygonEditState
               ELSE /\ polygonEditState' =
                          Some([PES EXCEPT !.measurementEdgeIndex = edgeIndex])
                    /\ UNCHANGED <<space, objects>>
            /\ viewport' = FitOnSpaceChange(viewport, space')
            /\ UNCHANGED <<selectedObjectId, canvasVars>>
        ELSE IF selectedObject # 0
                /\ isPointOnRotationHandle(screenPoint, objects[selectedObject], viewport) THEN
            /\ mode' = "dragging-rotation"
            /\ draggedObjectId' = objects[selectedObject].id
            /\ dragStart' = Some(screenPoint)
            /\ rotationStartAngle' = RotationStart(objects[selectedObject], worldPoint)
            /\ UNCHANGED <<docVars, polygonEditState, viewport, dragObjectStartPos,
                           vertexDragStart>>
        ELSE IF clickedObject # 0 THEN
            /\ selectedObjectId' = objects[clickedObject].id
            /\ mode' = "dragging-object"
            /\ draggedObjectId' = objects[clickedObject].id
            /\ dragStart' = Some(screenPoint)
            /\ dragObjectStartPos' = Some(objects[clickedObject].position)
            /\ UNCHANGED <<space, objects, polygonEditState, viewport,
                           rotationStartAngle, vertexDragStart>>
        ELSE
            /\ selectedObjectId' = NullId
            /\ mode' = "panning"
            /\ dragStart' = Some(screenPoint)
            /\ UNCHANGED <<space, objects, polygonEditState, viewport, draggedObjectId,
                           dragObjectStartPos, rotationStartAngle, vertexDragStart>>
    IN  press(findVertexAtPoint(screenPoint),
              findEdgeAtPoint(screenPoint),
              ObjIndex(selectedObjectId),
              screenToWorld(screenPoint.x, screenPoint.y, viewport),
              findObjectAtPoint(screenToWorld(screenPoint.x, screenPoint.y, viewport), objects),
              getEditingPolygonWorldPoints)

\* the mutant of handleMouseMove that gives no hover feedback and moves nothing
handleMouseMoveInert(screenPoint) ==
    UNCHANGED <<docVars, polygonEditState, viewport, canvasVars>>

handleMouseMove(screenPoint) ==
    IF polygonEditState # Null /\ mode = "idle" THEN
        \* hover feedback; no drag branch applies while the mode is idle
        LET vertexIndex == findVertexAtPoint(screenPoint)
            edgeIndex == IF vertexIndex = NoIndex THEN findEdgeAtPoint(screenPoint)
                         ELSE NoIndex
        IN  /\ polygonEditState' =
                  IF PES.hoveredVertexIndex # vertexIndex \/ PES.hoveredEdgeIndex # edgeIndex
                  THEN Some([PES EXCEPT !.hoveredVertexIndex = vertexIndex,
                                        !.hoveredEdgeIndex = edgeIndex])
                  ELSE polygonEditState
            /\ UNCHANGED <<docVars, viewport, canvasVars>>
    ELSE IF dragStart = Null THEN
        UNCHANGED <<docVars, polygonEditState, viewport, canvasVars>>
    ELSE
        LET dx == screenPoint.x - Val(dragStart).x
            dy == screenPoint.y - Val(dragStart).y
        IN  IF mode = "dragging-vertex" /\ polygonEditState # Null /\ vertexDragStart # Null THEN
                LET newPoint == Pt(AnchorPlusDelta(Val(vertexDragStart).x, dx, viewport),
                                   AnchorPlusDelta(Val(vertexDragStart).y, dy, viewport))
                    worldPoints == getEditingPolygonWorldPoints
                IN  /\ IF worldPoints # Null /\ PES.draggedVertexIndex # NoIndex
                       THEN UpdateEditedPolygon(
                                [Val(worldPoints) EXCEPT ![PES.draggedVertexIndex + 1] = newPoint])
                       ELSE UNCHANGED <<space, objects>>
                    /\ viewport' = FitOnSpaceChange(viewport, space')
                    /\ UNCHANGED <<selectedObjectId, polygonEditState, canvasVars>>
            ELSE IF mode = "dragging-object" /\ draggedObjectId # NullId
                    /\ dragObjectStartPos # Null THEN
                LET desiredPosition ==
                        Pt(AnchorPlusDelta(Val(dragObjectStartPos).x, dx, viewport),
                           AnchorPlusDelta(Val(dragObjectStartPos).y, dy, viewport))
                    draggedObject == ObjIndex(draggedObjectId)
                IN  /\ IF draggedObject # 0
                       THEN handleUpdateObjectPosition(draggedObjectId,
                                constrainPositionToSpace(objects[draggedObject],
                                                         desiredPosition, space))
                       ELSE UNCHANGED objects
                    /\ UNCHANGED <<space, selectedObjectId, polygonEditState, viewport,
                                   canvasVars>>
            ELSE IF mode = "dragging-rotation" /\ draggedObjectId # NullId THEN
                LET worldPoint == screenToWorld(screenPoint.x, screenPoint.y, viewport)
                    draggedObject == ObjIndex(draggedObjectId)
                    angle == calculateRotationAngle(objects[draggedObject].position, worldPoint)
                    newRotation == JsMod(angle - rotationStartAngle + 360, 360)
                IN  /\ IF draggedObject # 0
                          /\ isObjectInsideSpace(
                                [objects[draggedObject] EXCEPT !.rotation = newRotation], space)
                       THEN handleUpdateObjectRotation(draggedObjectId, newRotation)
                       ELSE UNCHANGED objects
                    /\ UNCHANGED <<space, selectedObjectId, polygonEditState, viewport,
                                   canvasVars>>
            ELSE IF mode = "panning" THEN
                /\ viewport' =
                      [viewport EXCEPT
                          !.offsetX = viewport.offsetX + Round(dx * 10000, ScaleZoom(viewport)),
                          !.offsetY = viewport.offsetY + Round(dy * 10000, ScaleZoom(viewport))]
                /\ dragStart' = Some(screenPoint)
                /\ UNCHANGED <<docVars, polygonEditState, mode, draggedObjectId,
                               dragObjectStartPos, rotationStartAngle, vertexDragStart>>
            ELSE UNCHANGED <<docVars, polygonEditState, viewport, canvasVars>>

\* the mutant of handleMouseUp that leaves the drag anchor and the dragged
\* object set
handleMouseUpKeepsAnchor ==
    /\ polygonEditState' =
          IF polygonEditState # Null /\ PES.draggedVertexIndex # NoIndex
          THEN Some([PES EXCEPT !.draggedVertexIndex = NoIndex])
          ELSE polygonEditState
    /\ mode' = "idle"
    /\ vertexDragStart' = Null
    /\ UNCHANGED <<docVars, viewport, rotationStartAngle, dragStart, draggedObjectId,
                   dragObjectStartPos>>

\* the mutant of handleMouseUp that leaves the edit state as it is
handleMouseUpKeepsVertex ==
    /\ mode' = "idle"
    /\ dragStart' = Null
    /\ draggedObjectId' = NullId
    /\ dragObjectStartPos' = Null
    /\ vertexDragStart' = Null
    /\ UNCHANGED <<docVars, polygonEditState, viewport, rotationStartAngle>>

handleMouseUp ==
    /\ polygonEditState' =
          IF polygonEditState # Null /\ PES.draggedVertexIndex # NoIndex
          THEN Some([PES EXCEPT !.draggedVertexIndex = NoIndex])
          ELSE polygonEditState
    /\ mode' = "idle"
    /\ dragStart' = Null
    /\ draggedObjectId' = NullId
    /\ dragObjectStartPos' = Null
    /\ vertexDragStart' = Null
    /\ UNCHANGED <<docVars, viewport, rotationStartAngle>>

\* the mutant of ClampZoom that does not clamp
ClampZoomNone(z) == z

\* Math.max(0.1, Math.min(10, zoomLevel)), in thousandths
ClampZoom(z) == Max(100, Min(10000, z))

\* zoomOut is e.deltaY > 0
handleWheel(mouse, zoomOut) ==
    LET worldBefore == screenToWorld(mouse.x, mouse.y, viewport)
        newZoomLevel == ClampZoom(IF zoomOut THEN Round(viewport.zoomLevel * 10, 11)
                                             ELSE Round(viewport.zoomLevel * 11, 10))
        newViewport == [viewport EXCEPT !.zoomLevel = newZoomLevel]
        worldAfter == screenToWorld(mouse.x, mouse.y, newViewport)
        offsetDx == (worldAfter.x - worldBefore.x) * 10
        offsetDy == (worldAfter.y - worldBefore.y) * 10
    IN  /\ viewport' = [newViewport EXCEPT !.offsetX = newViewport.offsetX - offsetDx,
                                           !.offsetY = newViewport.offsetY - offsetDy]
        /\ UNCHANGED <<docVars, polygonEditState, canvasVars>>

-----------------------------------------------------------------------------
(* Canvas: touch handlers.  A touch event carries e.touches, here a pair   *)
(* of points for two fingers and a point for one.                          *)

getTouchDistance(touch1, touch2) ==
    ISqrt((touch2.x - touch1.x) * (touch2.x - touch1.x)
            + (touch2.y - touch1.y) * (touch2.y - touch1.y))

getTouchCenter(touch1, touch2) ==
    Pt(Round(touch1.x + touch2.x, 2), Round(touch1.y + touch2.y, 2))

\* e.touches.length = 2
\* the mutant of handleTouchStartTwo that records the pinch and leaves the
\* gesture in progress as it is
handleTouchStartTwoKeepsMode(touch1, touch2) ==
    LET center == getTouchCenter(touch1, touch2)
    IN  /\ initialPinchDistance' = Some(getTouchDistance(touch1, touch2))
        /\ initialPinchZoom' = viewport.zoomLevel
        /\ initialPinchWorldPoint' = Some(screenToWorld(center.x, center.y, viewport))
        /\ UNCHANGED <<docVars, polygonEditState, viewport, canvasVars>>

\* the mutant of handleTouchStartTwo that sets the mode to idle and keeps the
\* anchor of the cancelled drag
handleTouchStartTwoKeepsAnchor(touch1, touch2) ==
    LET center == getTouchCenter(touch1, touch2)
    IN  /\ initialPinchDistance' = Some(getTouchDistance(touch1, touch2))
        /\ initialPinchZoom' = viewport.zoomLevel
        /\ initialPinchWorldPoint' = Some(screenToWorld(center.x, center.y, viewport))
        /\ mode' = "idle"
        /\ UNCHANGED <<docVars, polygonEditState, viewport, dragStart, draggedObjectId,
                       dragObjectStartPos, rotationStartAngle, vertexDragStart>>

handleTouchStartTwo(touch1, touch2) ==
    LET distance == getTouchDistance(touch1, touch2)
        center == getTouchCenter(touch1, touch2)
        worldPoint == screenToWorld(center.x, center.y, viewport)
    IN  /\ initialPinchDistance' = Some(distance)
        /\ initialPinchZoom' = viewport.zoomLevel
        /\ initialPinchWorldPoint' = Some(worldPoint)
        /\ mode' = "idle"
        /\ dragStart' = Null
        /\ UNCHANGED <<docVars, polygonEditState, viewport, draggedObjectId,
                       dragObjectStartPos, rotationStartAngle, vertexDragStart>>

\* e.touches.length = 1
handleTouchStartOne(screenPoint) ==
    LET vertexIndex == findVertexAtPoint(screenPoint)
        edgeIndex == findEdgeAtPoint(screenPoint)
        selectedObject == ObjIndex(selectedObjectId)
        worldPoint == screenToWorld(screenPoint.x, screenPoint.y, viewport)
        touchedObject == findObjectAtPoint(worldPoint, objects)
        worldPoints == getEditingPolygonWorldPoints
    IN  IF polygonEditState # Null /\ vertexIndex # NoIndex THEN
            /\ mode' = "dragging-vertex"
            /\ IF worldPoints # Null
               THEN /\ vertexDragStart' = Some(Val(worldPoints)[vertexIndex + 1])
                    /\ polygonEditState' =
                          Some([PES EXCEPT !.draggedVertexIndex = vertexIndex,
                                           !.measurementEdgeIndex = NoIndex])
               ELSE UNCHANGED <<vertexDragStart, polygonEditState>>
            /\ dragStart' = Some(screenPoint)
            /\ UNCHANGED <<docVars, viewport, draggedObjectId, dragObjectStartPos,
                           rotationStartAngle>>
        ELSE IF polygonEditState # Null /\ edgeIndex # NoIndex THEN
            /\ polygonEditState' = Some([PES EXCEPT !.measurementEdgeIndex = edgeIndex])
            /\ UNCHANGED <<docVars, viewport, canvasVars>>
        ELSE IF selectedObject # 0
                /\ isPointOnRotationHandle(screenPoint, objects[selectedObject], viewport) THEN
            /\ mode' = "dragging-rotation"
            /\ draggedObjectId' = objects[selectedObject].id
            /\ dragStart' = Some(screenPoint)
            /\ rotationStartAngle' = RotationStart(objects[selectedObject], worldPoint)
            /\ UNCHANGED <<docVars, polygonEditState, viewport, dragObjectStartPos,
                           vertexDragStart>>
        ELSE IF touchedObject # 0 THEN
            /\ selectedObjectId' = objects[touchedObject].id
            /\ mode' = "dragging-object"
            /\ draggedObjectId' = objects[touchedObject].id
            /\ dragStart' = Some(screenPoint)
            /\ dragObjectStartPos' = Some(objects[touchedObject].position)
            /\ UNCHANGED <<space, objects, polygonEditState, viewport,
                           rotationStartAngle, vertexDragStart>>
        ELSE
            /\ selectedObjectId' = NullId
            /\ mode' = "panning"
            /\ dragStart' = Some(screenPoint)
            /\ UNCHANGED <<space, objects, polygonEditState, viewport, draggedObjectId,
                           dragObjectStartPos, rotationStartAngle, vertexDragStart>>

\* the mutant of handleTouchMoveTwo that zooms and leaves the offsets alone
handleTouchMoveTwoKeepsOffset(touch1, touch2) ==
    /\ viewport' = [viewport EXCEPT !.zoomLevel =
                        ClampZoom(Round(initialPinchZoom * getTouchDistance(touch1, touch2),
                                        Val(initialPinchDistance)))]
    /\ UNCHANGED <<docVars, polygonEditState, canvasVars>>

\* the pinch branch: e.touches.length = 2, initialPinchDistance (not null, not 0)
\* and initialPinchWorldPoint
handleTouchMoveTwo(touch1, touch2) ==
    LET currentDistance == getTouchDistance(touch1, touch2)
        currentCenter == getTouchCenter(touch1, touch2)
        newZoomLevel == ClampZoom(Round(initialPinchZoom * currentDistance,
                                        Val(initialPinchDistance)))
        newScale == (viewport.baseScale * newZoomLevel) \div 1000
        \* in hundredths of a pixel
        expectedScreenX ==
            Round((Val(initialPinchWorldPoint).x * 10 + viewport.offsetX) * newScale, 100)
        expectedScreenY ==
            Round((Val(initialPinchWorldPoint).y * 10 + viewport.offsetY) * newScale, 100)
        offsetDx == Round((currentCenter.x * 100 - expectedScreenX) * 100, newScale)
        offsetDy == Round((currentCenter.y * 100 - expectedScreenY) * 100, newScale)
    IN  /\ viewport' = [viewport EXCEPT !.zoomLevel = newZoomLevel,
                                        !.offsetX = viewport.offsetX + offsetDx,
                                        !.offsetY = viewport.offsetY + offsetDy]
        /\ UNCHANGED <<docVars, polygonEditState, canvasVars>>

\* the single-touch branch: e.touches.length = 1 and dragStart
handleTouchMoveOne(screenPoint) ==
    LET dx == screenPoint.x - Val(dragStart).x
        dy == screenPoint.y - Val(dragStart).y
    IN  IF mode = "dragging-vertex" /\ polygonEditState # Null /\ vertexDragStart # Null THEN
            LET newPoint == Pt(AnchorPlusDelta(Val(vertexDragStart).x, dx, viewport),
                               AnchorPlusDelta(Val(vertexDragStart).y, dy, viewport))
                worldPoints == getEditingPolygonWorldPoints
            IN  /\ IF worldPoints # Null /\ PES.draggedVertexIndex # NoIndex
                   THEN UpdateEditedPolygon(
                            [Val(worldPoints) EXCEPT ![PES.draggedVertexIndex + 1] = newPoint])
                   ELSE UNCHANGED <<space, objects>>
                /\ viewport' = FitOnSpaceChange(viewport, space')
                /\ UNCHANGED <<selectedObjectId, polygonEditState, canvasVars>>
        ELSE IF mode = "dragging-object" /\ draggedObjectId # NullId
                /\ dragObjectStartPos # Null THEN
            LET desiredPosition ==
                    Pt(AnchorPlusDelta(Val(dragObjectStartPos).x, dx, viewport),
                       AnchorPlusDelta(Val(dragObjectStartPos).y, dy, viewport))
                draggedObject == ObjIndex(draggedObjectId)
            IN  /\ IF draggedObject # 0
                   THEN handleUpdateObjectPosition(draggedObjectId,
                            constrainPositionToSpace(objects[draggedObject],
                                                     desiredPosition, space))
                   ELSE UNCHANGED objects
                /\ UNCHANGED <<space, selectedObjectId, polygonEditState, viewport,
                               canvasVars>>
        ELSE IF mode = "dragging-rotation" /\ draggedObjectId # NullId THEN
            LET worldPoint == screenToWorld(screenPoint.x, screenPoint.y, viewport)
                draggedObject == ObjIndex(draggedObjectId)
                angle == calculateRotationAngle(objects[draggedObject].position, worldPoint)
                newRotation == JsMod(angle - rotationStartAngle + 360, 360)
            IN  /\ IF draggedObject # 0
                      /\ isObjectInsideSpace(
                            [objects[draggedObject] EXCEPT !.rotation = newRotation], space)
                   THEN handleUpdateObjectRotation(draggedObjectId, newRotation)
                   ELSE UNCHANGED objects
                /\ UNCHANGED <<space, selectedObjectId, polygonEditState, viewport,
                               canvasVars>>
        ELSE IF mode = "panning" THEN
            /\ viewport' =
                  [viewport EXCEPT
                      !.offsetX = viewport.offsetX + Round(dx * 10000, ScaleZoom(viewport)),
                      !.offsetY = viewport.offsetY + Round(dy * 10000, ScaleZoom(viewport))]
            /\ dragStart' = Some(screenPoint)
            /\ UNCHANGED <<docVars, polygonEditState, mode, draggedObjectId,
                           dragObjectStartPos, rotationStartAngle, vertexDragStart>>
        ELSE UNCHANGED <<docVars, polygonEditState, viewport, canvasVars>>

\* the mutant of handleTouchEnd that resets the pinch and leaves the drag in
\* progress
handleTouchEndKeepsDrag(remaining) ==
    /\ IF remaining < 2
       THEN initialPinchDistance' = Null /\ initialPinchWorldPoint' = Null
       ELSE UNCHANGED <<initialPinchDistance, initialPinchWorldPoint>>
    /\ UNCHANGED <<polygonEditState, mode, dragStart, draggedObjectId,
                   dragObjectStartPos, vertexDragStart>>
    /\ UNCHANGED <<docVars, viewport, rotationStartAngle, initialPinchZoom>>

\* remaining is e.touches.length after the fingers were lifted
handleTouchEnd(remaining) ==
    /\ IF remaining < 2
       THEN initialPinchDistance' = Null /\ initialPinchWorldPoint' = Null
       ELSE UNCHANGED <<initialPinchDistance, initialPinchWorldPoint>>
    /\ IF remaining = 0
       THEN /\ polygonEditState' =
                  IF polygonEditState # Null /\ PES.draggedVertexIndex # NoIndex
                  THEN Some([PES EXCEPT !.draggedVertexIndex = NoIndex])
                  ELSE polygonEditState
            /\ mode' = "idle"
            /\ dragStart' = Null
            /\ draggedObjectId' = NullId
            /\ dragObjectStartPos' = Null
            /\ vertexDragStart' = Null
       ELSE UNCHANGED <<polygonEditState, mode, dragStart, draggedObjectId,
                        dragObjectStartPos, vertexDragStart>>
    /\ UNCHANGED <<docVars, viewport, rotationStartAngle, initialPinchZoom>>

-----------------------------------------------------------------------------
(* App and PropertiesPanel: the operations outside the canvas *)

\* PolygonDesigner's "Edit Space Outline" and "Edit Selected Object" buttons
handleEnterPolygonEditMode(target) ==
    IF target = "object"
    THEN IF selectedObjectId = NullId
         THEN UNCHANGED polygonEditState
         ELSE polygonEditState' = Some(NewEditState(ObjectTarget(selectedObjectId)))
    ELSE polygonEditState' = Some(NewEditState(SpaceTarget))

handleExitPolygonEditMode == polygonEditState' = Null

\* PropertiesPanel.handlePosXBlur: tenths is Math.round(parseFloat(posX) * 10)
handlePosXBlur(tenths) ==
    LET selectedObject == objects[ObjIndex(selectedObjectId)]
    IN  handleUpdateObjectPosition(selectedObject.id, Pt(tenths, selectedObject.position.y))

handlePosYBlur(tenths) ==
    LET selectedObject == objects[ObjIndex(selectedObjectId)]
    IN  handleUpdateObjectPosition(selectedObject.id, Pt(selectedObject.position.x, tenths))

\* PropertiesPanel.handleRotationBlur: value is parseFloat(rotation) in whole
\* degrees, Null when it is NaN (the field is then reset and nothing is sent)
handleRotationBlur(value) ==
    LET selectedObject == objects[ObjIndex(selectedObjectId)]
    IN  IF value # Null
        THEN handleUpdateObjectRotation(selectedObject.id, JsMod(Val(value) + 360, 360))
        ELSE UNCHANGED objects

-----------------------------------------------------------------------------
(* App and PolygonDesigner: the measured length of an edge *)

\* a * b for 0 <= a, b < 40000000 as <<high, low>> in base 1000000, which
\* keeps every intermediate value within 32 bits
Product(a, b) ==
    LET parts(a1, a0, b1, b0) ==
            LET carried(mid, low) ==
                    << a1 * b1 + (mid \div 1000) + (((mid % 1000) * 1000 + low) \div 1000000),
                       ((mid % 1000) * 1000 + low) % 1000000 >>
            IN  carried(a1 * b0 + a0 * b1, a0 * b0)
    IN  parts(a \div 1000, a % 1000, b \div 1000, b % 1000)

\* p <= q and p = q for two products
ProductLeq(p, q) == p[1] < q[1] \/ (p[1] = q[1] /\ p[2] <= q[2])

\* Math.round(d * (targetLength / Math.sqrt(lenSq))) for lenSq > 0 and
\* targetLength > 0, computed exactly: the magnitude r is the largest with
\* (2r - 1) * sqrt(lenSq) <= 2 * |d| * targetLength, found next to an estimate
\* made with the square root to a tenth; a half is rounded towards plus
\* infinity, as Math.round does
StretchRound(d, targetLength, lenSq) ==
    LET reaches(r, twice) ==
            r <= 0 \/ ProductLeq(Product((2 * r - 1) * (2 * r - 1), lenSq),
                                 Product(twice, twice))
        half(r, twice) ==
            r > 0 /\ Product((2 * r - 1) * (2 * r - 1), lenSq) = Product(twice, twice)
        magnitude(estimate, margin, twice) ==
            CHOOSE r \in (estimate - margin)..(estimate + margin) :
                r >= 0 /\ reaches(r, twice) /\ ~reaches(r + 1, twice)
        signed(r, twice) ==
            IF d >= 0 THEN r
            ELSE IF half(r, twice) THEN 0 - (r - 1) ELSE 0 - r
        rounded(twice, tenths) ==
            signed(magnitude(Round(twice * 5, tenths), (twice * 5) \div (tenths * tenths) + 2,
                             twice),
                   twice)
    IN  rounded(2 * Abs(d) * targetLength, ISqrt(lenSq * 100))

\* points with the point at list position at replaced by the end of the edge
\* edgeIndex stretched from its start p1 to targetLength; points itself when
\* the edge has no length
StretchedEdge(points, edgeIndex, targetLength, at) ==
    LET moved(p1, p2) ==
            LET grown(dx, dy, lenSq) ==
                    IF lenSq = 0 THEN points
                    ELSE [points EXCEPT
                            ![at] = Pt(p1.x + StretchRound(dx, targetLength, lenSq),
                                       p1.y + StretchRound(dy, targetLength, lenSq))]
            IN  grown(p2.x - p1.x, p2.y - p1.y,
                      (p2.x - p1.x) * (p2.x - p1.x) + (p2.y - p1.y) * (p2.y - p1.y))
    IN  moved(points[edgeIndex + 1], points[((edgeIndex + 1) % Len(points)) + 1])

\* App.handleMeasurementInput with the new point written to list position
\* (edgeIndex + shift) % n
MeasurementInputAt(edgeIndex, targetLength, shift) ==
    LET i == ObjIndex(PES.target.objectId)
        stretch(points) ==
            StretchedEdge(points, edgeIndex, targetLength,
                          ((edgeIndex + shift) % Len(points)) + 1)
    IN  IF polygonEditState = Null THEN UNCHANGED <<space, objects>>
        ELSE IF PES.target.type = "space" THEN
            /\ space' = IF edgeIndex < 0 \/ edgeIndex >= Len(space) THEN space
                        ELSE stretch(space)
            /\ UNCHANGED objects
        ELSE
            /\ UNCHANGED space
            /\ IF i = 0 THEN UNCHANGED objects
               ELSE IF edgeIndex < 0 \/ edgeIndex >= Len(objects[i].shape)
               THEN UNCHANGED objects
               ELSE handleUpdateObjectShape(PES.target.objectId, stretch(objects[i].shape))

\* the mutant of handleMeasurementInput that writes the new point over the
\* start of the edge
handleMeasurementInputOverStart(edgeIndex, targetLength) ==
    MeasurementInputAt(edgeIndex, targetLength, 0)

\* App.handleMeasurementInput: targetLength is in tenths of an inch.  The
\* points are the outline of the room or the shape of the object in its local
\* coordinates; the end of the edge, (edgeIndex + 1) % n, is rewritten.
handleMeasurementInput(edgeIndex, targetLength) ==
    MeasurementInputAt(edgeIndex, targetLength, 1)

\* the mutant of handleMeasurementSubmit that takes 60 inches for a value it
\* cannot use
handleMeasurementSubmitDefaultLength(value) ==
    IF polygonEditState # Null /\ PES.measurementEdgeIndex # NoIndex
    THEN handleMeasurementInput(PES.measurementEdgeIndex,
                                IF value # Null /\ Val(value) > 0 THEN Val(value) ELSE 600)
    ELSE UNCHANGED <<space, objects>>

\* PolygonDesigner.handleMeasurementSubmit: value is parseFloat(measurementValue)
\* in tenths of an inch, Null when it is NaN; the text field is cleared after
\* an accepted value and kept otherwise
handleMeasurementSubmit(value) ==
    IF polygonEditState # Null /\ PES.measurementEdgeIndex # NoIndex
       /\ value # Null /\ Val(value) > 0
    THEN handleMeasurementInput(PES.measurementEdgeIndex, Val(value))
    ELSE UNCHANGED <<space, objects>>

\* App.handleLoadSpace: the room and the objects of a library item replace the
\* current ones; the objects get new ids
handleLoadSpace(spaceItem) ==
    /\ space' = spaceItem.space
    /\ objects' = [k \in 1..Len(spaceItem.objects) |->
                      [spaceItem.objects[k] EXCEPT !.id = "obj-loaded-" \o spaceItem.objects[k].id]]

-----------------------------------------------------------------------------
(* The inputs of the model *)

\* the number of events that start a gesture, a pan step, a zoom or an edit
\* (presses, touch starts, pan moves, wheel ticks, view resets, edit mode
\* switches, panel edits) in a behaviour, and the most fingers on the canvas.
\* Releases and the moves of a drag or a pinch, which are recomputed from an
\* anchor, are not counted.
MaxSteps == 2
MaxFingers == 2

\* pointer positions, in canvas pixels.  With the fitted viewport of the default
\* room a pixel is two world units and the room's corner (0,0) is at (72,60).
Pts == { Pt(72, 60),      \* the room's corner (0,0)
         Pt(432, 60),     \* on the room's top edge
         Pt(432, 240),    \* the rotation handle of an object at the centre
         Pt(432, 360),    \* the room's centre
         Pt(780, 360),    \* near the right wall
         Pt(608, 240) }   \* up and to the right of the centre

WheelPts == { Pt(150, 150) }

\* the positions of two fingers
TouchPairs == { << Pt(407, 360), Pt(457, 360) >>,    \* 50 pixels apart
                << Pt(32, 360), Pt(832, 360) >>,      \* 800 pixels apart
                << Pt(100, 200), Pt(300, 200) >> }    \* 200 pixels apart, up and to the left

\* values typed in the Properties panel's X and Y fields, in tenths of an inch
PanelXs == { 900, 1300 }
PanelYs == { 1100 }

\* the degrees typed into the Properties panel's rotation field
RotationValues == { Some(0 - 500), Some(540) }

\* the object lists of the documents the app starts with
InitObjects == { << DefaultSofa >> }

NoProbe == [fn |-> "none"]

-----------------------------------------------------------------------------
(* The state machine *)

Init ==
    /\ space = DefaultOutline
    /\ objects \in InitObjects
    /\ selectedObjectId \in {NullId, objects[1].id}
    /\ polygonEditState = Null
    /\ viewport = FitViewport(space)
    /\ mode = "idle"
    /\ dragStart = Null
    /\ draggedObjectId = NullId
    /\ dragObjectStartPos = Null
    /\ rotationStartAngle = 0
    /\ initialPinchDistance = Null
    /\ initialPinchZoom = 1000
    /\ initialPinchWorldPoint = Null
    /\ vertexDragStart = Null
    /\ touches = 0
    /\ steps = 0
    /\ probe = NoProbe

Step == steps < MaxSteps /\ steps' = steps + 1

MouseDown ==
    /\ Step
    /\ \E screenPoint \in Pts, shiftKey \in BOOLEAN : handleMouseDown(screenPoint, shiftKey)
    /\ UNCHANGED <<pinchVars, touches, probe>>

MouseMove ==
    /\ IF mode = "panning" /\ dragStart # Null THEN Step ELSE UNCHANGED steps
    /\ \E screenPoint \in Pts : handleMouseMove(screenPoint)
    /\ UNCHANGED <<pinchVars, touches, probe>>

\* onMouseUp and onMouseLeave
MouseUp ==
    /\ handleMouseUp
    /\ UNCHANGED <<pinchVars, touches, steps, probe>>

Wheel ==
    /\ Step
    /\ \E mouse \in WheelPts, zoomOut \in BOOLEAN : handleWheel(mouse, zoomOut)
    /\ UNCHANGED <<pinchVars, touches, probe>>

\* fingers land: e.touches.length becomes n
TouchStart ==
    /\ Step
    /\ \E n \in (touches + 1)..MaxFingers :
        /\ touches' = n
        /\ IF n = 2 THEN
                /\ \E pair \in TouchPairs : handleTouchStartTwo(pair[1], pair[2])
                /\ UNCHANGED probe
           ELSE IF n = 1 THEN
                /\ \E screenPoint \in Pts : handleTouchStartOne(screenPoint)
                /\ UNCHANGED <<pinchVars, probe>>
           ELSE UNCHANGED <<docVars, polygonEditState, viewport, canvasVars, pinchVars, probe>>

TouchMove ==
    /\ IF touches = 1 /\ mode = "panning" /\ dragStart # Null THEN Step ELSE UNCHANGED steps
    /\ touches > 0
    /\ IF touches = 2 /\ initialPinchDistance # Null /\ initialPinchDistance # Some(0)
          /\ initialPinchWorldPoint # Null
       THEN \E pair \in TouchPairs : handleTouchMoveTwo(pair[1], pair[2])
       ELSE IF touches = 1 /\ dragStart # Null
       THEN \E screenPoint \in Pts : handleTouchMoveOne(screenPoint)
       ELSE UNCHANGED <<docVars, polygonEditState, viewport, canvasVars>>
    /\ UNCHANGED <<pinchVars, touches, probe>>

\* onTouchEnd and onTouchCancel: fingers are lifted, remaining stay
TouchEnd ==
    /\ touches > 0
    /\ \E remaining \in 0..(touches - 1) :
        /\ touches' = remaining
        /\ handleTouchEnd(remaining)
    /\ UNCHANGED <<steps, probe>>

\* the "Reset View" button: resetViewport
ResetView ==
    /\ Step
    /\ FitDefined(space)
    /\ viewport' = FitViewport(space)
    /\ UNCHANGED <<docVars, polygonEditState, canvasVars, pinchVars, touches, probe>>

EnterPolygonEditMode ==
    /\ Step
    /\ polygonEditState = Null
    /\ \E target \in {"space", "object"} : handleEnterPolygonEditMode(target)
    /\ UNCHANGED <<docVars, viewport, canvasVars, pinchVars, touches, probe>>

ExitPolygonEditMode ==
    /\ Step
    /\ polygonEditState # Null
    /\ handleExitPolygonEditMode
    /\ UNCHANGED <<docVars, viewport, canvasVars, pinchVars, touches, probe>>

\* the Properties panel is shown for the selected object
PosXBlur ==
    /\ Step
    /\ ObjIndex(selectedObjectId) # 0
    /\ \E tenths \in PanelXs : handlePosXBlur(tenths)
    /\ UNCHANGED <<space, selectedObjectId, polygonEditState, viewport, canvasVars,
                   pinchVars, touches, probe>>

PosYBlur ==
    /\ Step
    /\ ObjIndex(selectedObjectId) # 0
    /\ \E tenths \in PanelYs : handlePosYBlur(tenths)
    /\ UNCHANGED <<space, selectedObjectId, polygonEditState, viewport, canvasVars,
                   pinchVars, touches, probe>>

RotationBlur ==
    /\ Step
    /\ ObjIndex(selectedObjectId) # 0
    /\ \E value \in RotationValues : handleRotationBlur(value)
    /\ UNCHANGED <<space, selectedObjectId, polygonEditState, viewport, canvasVars,
                   pinchVars, touches, probe>>

Next ==
    \/ MouseDown
    \/ MouseMove
    \/ MouseUp
    \/ Wheel
    \/ TouchStart
    \/ TouchMove
    \/ TouchEnd
    \/ ResetView
    \/ EnterPolygonEditMode
    \/ ExitPolygonEditMode
    \/ PosXBlur
    \/ PosYBlur
    \/ RotationBlur

Spec == Init /\ [][Next]_vars


-----------------------------------------------------------------------------
(* The end-to-end scenario: the room holds the rectangle createRectangle(84, *)
(* 36) that the palette placed at its centre; the view is zoomed by pinches *)
(* and the rectangle is dragged along X with the mouse.                     *)

\* pointer positions on the line through the centre of the canvas: at zoom 0.1
\* a pixel is 20 world units, and from the centre the others are 280, 300,
\* 1000 and 2000 world units to the right
ScenarioPts == { Pt(432, 360), Pt(446, 360), Pt(447, 360), Pt(482, 360), Pt(532, 360) }

InitScenario ==
    /\ space = DefaultOutline
    /\ objects = << PaletteRectangle(84, 36, 1) >>
    /\ selectedObjectId = objects[1].id
    /\ polygonEditState = Null
    /\ viewport = FitViewport(space)
    /\ mode = "idle"
    /\ dragStart = Null
    /\ draggedObjectId = NullId
    /\ dragObjectStartPos = Null
    /\ rotationStartAngle = 0
    /\ initialPinchDistance = Null
    /\ initialPinchZoom = 1000
    /\ initialPinchWorldPoint = Null
    /\ vertexDragStart = Null
    /\ touches = 0
    /\ steps = 0
    /\ probe = NoProbe

ScenarioMouseDown ==
    /\ Step
    /\ \E screenPoint \in ScenarioPts : handleMouseDown(screenPoint, FALSE)
    /\ UNCHANGED <<pinchVars, touches, probe>>

ScenarioMouseMove ==
    /\ IF mode = "panning" /\ dragStart # Null THEN Step ELSE UNCHANGED steps
    /\ \E screenPoint \in ScenarioPts :
          /\ handleMouseMove(screenPoint)
          /\ probe' = [fn |-> "handleMouseMove", screenPoint |-> screenPoint]
    /\ UNCHANGED <<pinchVars, touches>>

NextScenario ==
    \/ ScenarioMouseDown
    \/ ScenarioMouseMove
    \/ MouseUp
    \/ TouchStart
    \/ TouchMove
    \/ TouchEnd

SpecScenario == InitScenario /\ [][NextScenario]_vars

-----------------------------------------------------------------------------
(* constrainPositionToSpace as a pure function: the room, the object and   *)
(* the desired position are drawn from bounded sets and the function is    *)
(* applied once; its arguments and result are kept in probe.               *)

\* an L-shaped room: the default room without its bottom-right quarter
LRoom == << Pt(0, 0), Pt(1440, 0), Pt(1440, 600), Pt(720, 600), Pt(720, 1200), Pt(0, 1200) >>

GeomOutlines == { DefaultOutline, LRoom }

GeomShapes == { createRectangle(20, 20), createRectangle(72, 36) }

GeomRotations == { 0, 90 }

\* positions in each quarter of the room, and one outside it
GeomPositions == { Pt(400, 300), Pt(1000, 300), Pt(400, 900), Pt(1000, 900), Pt(1500, 300) }

\* desired positions: in each quarter, against the walls and outside
GeomDesired == { Pt(x, y) : x \in {0 - 100, 400, 1000, 1390}, y \in {300, 900, 1150} }

InitGeom ==
    /\ space \in GeomOutlines
    /\ objects \in { << [id |-> "obj-rect", shape |-> sh, position |-> pos,
                          rotation |-> rot, zIndex |-> 1] >> :
                          sh \in GeomShapes, pos \in GeomPositions, rot \in GeomRotations }
    /\ selectedObjectId = NullId
    /\ polygonEditState = Null
    /\ viewport = FitViewport(space)
    /\ mode = "idle"
    /\ dragStart = Null
    /\ draggedObjectId = NullId
    /\ dragObjectStartPos = Null
    /\ rotationStartAngle = 0
    /\ initialPinchDistance = Null
    /\ initialPinchZoom = 1000
    /\ initialPinchWorldPoint = Null
    /\ vertexDragStart = Null
    /\ touches = 0
    /\ steps = 0
    /\ probe = NoProbe

Constrain ==
    /\ probe = NoProbe
    /\ \E desiredPosition \in GeomDesired :
          probe' = [fn |-> "constrainPositionToSpace",
                    desiredPosition |-> desiredPosition,
                    result |-> constrainPositionToSpace(objects[1], desiredPosition, space)]
    /\ UNCHANGED <<docVars, polygonEditState, viewport, canvasVars, pinchVars, touches, steps>>

NextGeom == Constrain

SpecGeom == InitGeom /\ [][NextGeom]_vars

-----------------------------------------------------------------------------
(* Polygon editing: the room or the sofa is being edited with the mouse.    *)

\* pointer positions, in canvas pixels, with the fitted viewport
EditPts == { Pt(72, 60),      \* the room's corner (0,0)
             Pt(792, 60),     \* the room's corner (1440,0)
             Pt(432, 60),     \* on the room's top edge
             Pt(252, 660),    \* on the room's bottom edge
             Pt(252, 270),    \* the sofa's first corner when it is not rotated
             Pt(432, 240),    \* the rotation handle of the sofa when it is not rotated
             Pt(352, 176),    \* the sofa's first corner when it is rotated by 40
             Pt(477, 282),    \* on the sofa's first edge when it is rotated by 40,
                              \* inside the sofa when it is not rotated
             Pt(84, 60),      \* on the room's top edge, 12 pixels from the corner (0,0)
             Pt(80, 60) }     \* between the two, 8 pixels from the corner

\* the rotations of the sofa when the edit starts
EditRotations == { 0, 40 }

\* the rooms when the edit starts: the default one and one with six corners
EditOutlines == { DefaultOutline, LRoom }

\* the documents and edit targets when the edit starts: a room being edited
\* with the sofa as it is placed at first, or the sofa being edited in the
\* default room
EditStarts ==
    { [space |-> outline, objects |-> << DefaultSofa >>, target |-> SpaceTarget] :
        outline \in EditOutlines }
    \cup
    { [space |-> DefaultOutline,
       objects |-> << [DefaultSofa EXCEPT !.rotation = r] >>,
       target |-> ObjectTarget(DefaultSofa.id)] : r \in EditRotations }

InitEdit ==
    /\ \E start \in EditStarts :
          /\ space = start.space
          /\ objects = start.objects
          /\ polygonEditState = Some(NewEditState(start.target))
    /\ selectedObjectId = objects[1].id
    /\ viewport = FitViewport(DefaultOutline)
    /\ mode = "idle"
    /\ dragStart = Null
    /\ draggedObjectId = NullId
    /\ dragObjectStartPos = Null
    /\ rotationStartAngle = 0
    /\ initialPinchDistance = Null
    /\ initialPinchZoom = 1000
    /\ initialPinchWorldPoint = Null
    /\ vertexDragStart = Null
    /\ touches = 0
    /\ steps = 0
    /\ probe = NoProbe

EditMouseDown ==
    /\ Step
    /\ \E screenPoint \in EditPts, shiftKey \in BOOLEAN : handleMouseDown(screenPoint, shiftKey)
    /\ UNCHANGED <<pinchVars, touches, probe>>

EditMouseMove ==
    /\ IF mode = "idle" \/ (mode = "panning" /\ dragStart # Null)
       THEN Step ELSE UNCHANGED steps
    /\ \E screenPoint \in EditPts :
          /\ handleMouseMove(screenPoint)
          /\ probe' = [fn |-> "handleMouseMove", screenPoint |-> screenPoint]
    /\ UNCHANGED <<pinchVars, touches>>

-----------------------------------------------------------------------------
(* The measurement of an edge: an edge of the room or of the sofa is        *)
(* selected, lengths are typed in the measurement field, and a saved room   *)
(* may be loaded while the edge stays selected.                             *)

\* rooms as vertex edits leave them: the default one, the one with six corners,
\* one whose first edge is (0,0)-(400,0), one whose first edge is
\* (0,0)-(300,400), one with a slanted first edge of irrational length, and
\* one whose first corner was dragged onto the second
MeasureOutlines ==
    { DefaultOutline,
      LRoom,
      << Pt(0, 0), Pt(400, 0), Pt(1440, 1200), Pt(0, 1200) >>,
      << Pt(0, 0), Pt(300, 400), Pt(1440, 1200), Pt(0, 1200) >>,
      << Pt(100, 50), Pt(1440, 0 - 37), Pt(1440, 1200), Pt(0, 1200) >>,
      << Pt(1440, 0), Pt(1440, 0), Pt(1440, 1200), Pt(0, 1200) >> }

\* the documents and edit targets: a room being edited, or the sofa being
\* edited in the default room
MeasureStarts ==
    { [space |-> outline, objects |-> << DefaultSofa >>, target |-> SpaceTarget] :
        outline \in MeasureOutlines }
    \cup
    { [space |-> DefaultOutline,
       objects |-> << [DefaultSofa EXCEPT !.rotation = r] >>,
       target |-> ObjectTarget(DefaultSofa.id)] : r \in EditRotations }

\* the points of the polygon being edited, as handleMeasurementInput reads
\* them: the outline, or the shape in local coordinates; Null when the object
\* is gone
getPolygonPoints ==
    IF polygonEditState = Null THEN Null
    ELSE IF PES.target.type = "space" THEN Some(space)
    ELSE IF ObjIndex(PES.target.objectId) = 0 THEN Null
    ELSE Some(objects[ObjIndex(PES.target.objectId)].shape)

\* parseFloat of the text typed in the measurement field, in tenths of an inch
MeasurementValues == { Null, Some(0), Some(0 - 600), Some(600), Some(1000), Some(1500) }

\* the rooms saved in the library: the default document
SpaceLibrary == { [space |-> DefaultOutline, objects |-> << DefaultSofa >>] }

\* an edge of the polygon has been pressed and is selected for measurement
InitMeasure ==
    /\ \E start \in MeasureStarts :
          /\ space = start.space
          /\ objects = start.objects
          /\ \E edgeIndex \in 0..(Len(IF start.target.type = "space" THEN start.space
                                       ELSE start.objects[1].shape) - 1) :
                polygonEditState =
                    Some([NewEditState(start.target) EXCEPT !.measurementEdgeIndex = edgeIndex])
    /\ selectedObjectId = objects[1].id
    /\ viewport = FitViewport(DefaultOutline)
    /\ mode = "idle"
    /\ dragStart = Null
    /\ draggedObjectId = NullId
    /\ dragObjectStartPos = Null
    /\ rotationStartAngle = 0
    /\ initialPinchDistance = Null
    /\ initialPinchZoom = 1000
    /\ initialPinchWorldPoint = Null
    /\ vertexDragStart = Null
    /\ touches = 0
    /\ steps = 0
    /\ probe = NoProbe

\* the measurement form is shown while an edge is selected
MeasurementSubmit ==
    /\ Step
    /\ polygonEditState # Null
    /\ PES.measurementEdgeIndex # NoIndex
    /\ \E value \in MeasurementValues :
          /\ handleMeasurementSubmit(value)
          /\ probe' = [fn |-> "handleMeasurementSubmit", value |-> value,
                       points |-> getPolygonPoints]
    /\ viewport' = FitOnSpaceChange(viewport, space')
    /\ UNCHANGED <<selectedObjectId, polygonEditState, canvasVars, pinchVars, touches>>

LoadSpace ==
    /\ Step
    /\ \E spaceItem \in SpaceLibrary : handleLoadSpace(spaceItem)
    /\ viewport' = FitOnSpaceChange(viewport, space')
    /\ UNCHANGED <<selectedObjectId, polygonEditState, canvasVars, pinchVars, touches, probe>>

NextMeasure ==
    \/ MeasurementSubmit
    \/ LoadSpace
    \/ ResetView

SpecMeasure == InitMeasure /\ [][NextMeasure]_vars

\* polygon editing with the measurement form: presses, moves and releases of
\* the mouse, and lengths submitted for the edge that a press selected
NextEdit ==
    \/ EditMouseDown
    \/ EditMouseMove
    \/ MouseUp
    \/ MeasurementSubmit

SpecEdit == InitEdit /\ [][NextEdit]_vars

\* polygon editing by touch: one and two fingers put down, moved and lifted
\* while a polygon is being edited
NextTouchEdit ==
    \/ TouchStart
    \/ TouchMove
    \/ TouchEnd

SpecTouchEdit == InitEdit /\ [][NextTouchEdit]_vars


-----------------------------------------------------------------------------
(* Layers: the room holds the sofa and a 24 x 24 inch rectangle that the    *)
(* palette placed at the room's centre, on top of the sofa.  The two        *)
(* objects lie over each other in every stacking and list order.            *)

LayeredObjects ==
    { << [DefaultSofa EXCEPT !.zIndex = zs], PaletteRectangle(24, 24, zr) >> :
          zs \in 1..2, zr \in 1..2 }
    \cup { << PaletteRectangle(24, 24, 2), DefaultSofa >> }

InitLayers ==
    /\ space = DefaultOutline
    /\ objects \in LayeredObjects
    /\ selectedObjectId \in {NullId} \cup {objects[i].id : i \in 1..Len(objects)}
    /\ polygonEditState = Null
    /\ viewport = FitViewport(space)
    /\ mode = "idle"
    /\ dragStart = Null
    /\ draggedObjectId = NullId
    /\ dragObjectStartPos = Null
    /\ rotationStartAngle = 0
    /\ initialPinchDistance = Null
    /\ initialPinchZoom = 1000
    /\ initialPinchWorldPoint = Null
    /\ vertexDragStart = Null
    /\ touches = 0
    /\ steps = 0
    /\ probe = NoProbe

NextLayers ==
    \/ MouseDown
    \/ MouseUp
    \/ TouchStart
    \/ TouchEnd
    \/ EnterPolygonEditMode

SpecLayers == InitLayers /\ [][NextLayers]_vars

-----------------------------------------------------------------------------

(* The hit test and the containment test as pure functions: the outline,    *)
(* the objects and the point are drawn from bounded sets, polygons of fewer *)
(* than three points among them, and each function is applied; its          *)
(* arguments and result are kept in probe.                                  *)

HitOutlines ==
    { DefaultOutline,
      LRoom,
      << Pt(0, 0), Pt(1000, 0), Pt(1000, 800), Pt(0, 800) >>,
      << Pt(0, 0), Pt(1440, 0) >>,
      << >> }

\* the sofa and a rectangle on it in every stacking and list order; the sofa
\* turned, against a wall and beyond it; a triangle whose corners are in the
\* arms of the L-shaped room; objects whose shapes have two points and none
HitObjects ==
    LayeredObjects
    \cup { << [DefaultSofa EXCEPT !.rotation = 90] >>,
           << [DefaultSofa EXCEPT !.position = Pt(1300, 600)] >>,
           << [DefaultSofa EXCEPT !.position = Pt(1801, 600)] >>,
           << [DefaultSofa EXCEPT !.position = Pt(360, 180)] >>,
           << [DefaultSofa EXCEPT !.position = Pt(1080, 600)] >>,
           << [DefaultSofa EXCEPT !.position = Pt(720, 1020)] >>,
           << [DefaultSofa EXCEPT !.position = Pt(640, 620)] >>,
           << [id |-> "obj-triangle",
               shape |-> << Pt(680, 0 - 100), Pt(0 - 220, 500), Pt(0 - 620, 0 - 500) >>,
               position |-> Pt(720, 600), rotation |-> 0, zIndex |-> 1] >>,
           << DefaultSofa,
              [id |-> "obj-line", shape |-> << Pt(0 - 100, 0), Pt(100, 0) >>,
               position |-> Pt(720, 600), rotation |-> 0, zIndex |-> 3] >>,
           << [id |-> "obj-empty", shape |-> << >>,
               position |-> Pt(720, 600), rotation |-> 0, zIndex |-> 1] >> }

\* world points: the room's centre, in the sofa beside the rectangle, in a
\* corner of the room, and outside the room; the corners of the rectangular
\* rooms and points on each of their walls
HitPts ==
    { Pt(720, 600), Pt(400, 450), Pt(50, 50), Pt(1700, 600),
      Pt(0, 0), Pt(1440, 0), Pt(1440, 1200), Pt(0, 1200),
      Pt(0, 600), Pt(720, 0), Pt(1440, 600), Pt(720, 1200),
      Pt(1000, 400), Pt(500, 800), Pt(1000, 800), Pt(999, 799) }

InitHit ==
    /\ space \in HitOutlines
    /\ objects \in HitObjects
    /\ selectedObjectId = NullId
    /\ polygonEditState = Null
    /\ viewport = FitViewport(DefaultOutline)
    /\ mode = "idle"
    /\ dragStart = Null
    /\ draggedObjectId = NullId
    /\ dragObjectStartPos = Null
    /\ rotationStartAngle = 0
    /\ initialPinchDistance = Null
    /\ initialPinchZoom = 1000
    /\ initialPinchWorldPoint = Null
    /\ vertexDragStart = Null
    /\ touches = 0
    /\ steps = 0
    /\ probe = NoProbe

FindObject ==
    /\ \E worldPoint \in HitPts :
          probe' = [fn |-> "findObjectAtPoint", worldPoint |-> worldPoint,
                    result |-> findObjectAtPoint(worldPoint, objects)]
    /\ UNCHANGED <<docVars, polygonEditState, viewport, canvasVars, pinchVars, touches, steps>>

InsideSpace ==
    /\ \E k \in 1..Len(objects) :
          probe' = [fn |-> "isObjectInsideSpace", index |-> k,
                    result |-> isObjectInsideSpace(objects[k], space)]
    /\ UNCHANGED <<docVars, polygonEditState, viewport, canvasVars, pinchVars, touches, steps>>

\* isPointInPolygon against the outline (index 0) and against the world
\* polygon of an object
PointInPolygon ==
    /\ \E point \in HitPts, k \in 0..Len(objects) :
          probe' = [fn |-> "isPointInPolygon", point |-> point, index |-> k,
                    result |-> isPointInPolygon(point,
                                   IF k = 0 THEN space
                                   ELSE getObjectWorldPolygon(objects[k]))]
    /\ UNCHANGED <<docVars, polygonEditState, viewport, canvasVars, pinchVars, touches, steps>>

NextHit ==
    \/ FindObject
    \/ InsideSpace
    \/ PointInPolygon

SpecHit == InitHit /\ [][NextHit]_vars

-----------------------------------------------------------------------------

(* Claims *)

\* the object of the probe at a position
ProbeAt(position) == [objects[1] EXCEPT !.position = position]

\* the candidates of the probe in the order of the claim
ProbeCandidates ==
    << probe.desiredPosition,
       Pt(probe.desiredPosition.x, objects[1].position.y),
       Pt(objects[1].position.x, probe.desiredPosition.y) >>

ProbePassing == { k \in 1..3 : isObjectInsideSpace(ProbeAt(ProbeCandidates[k]), space) }

\* C1: constrainPositionToSpace returns the first candidate, in the order
\* desired position, X-only move (desired.x, obj.y), Y-only move
\* (obj.x, desired.y), that puts every vertex of the object inside the room,
\* and the object's current position when none does; when both the X-only
\* and the Y-only candidate pass, the X-only one is returned.
C1_FirstPassingCandidate ==
    probe.fn = "constrainPositionToSpace" =>
        probe.result =
            IF ProbePassing = {} THEN objects[1].position
            ELSE ProbeCandidates[CHOOSE k \in ProbePassing : \A h \in ProbePassing : k <= h]

\* the full move fails, both single-axis moves pass and differ, and the X-only
\* move is the result
C1_Witness ==
    /\ probe.fn = "constrainPositionToSpace"
    /\ ProbePassing = {2, 3}
    /\ ProbeCandidates[2] # ProbeCandidates[3]
    /\ probe.result = ProbeCandidates[2]

\* every vertex of the object's world polygon is inside the outline
Inside(obj, outline) ==
    \A v \in { getObjectWorldPolygon(obj)[i] : i \in 1..Len(obj.shape) } :
        isPointInPolygon(v, outline)

\* the position a drag with the pointer at screenPoint asks for: the anchor
\* plus the screen delta in world units
DesiredPosition(screenPoint) ==
    Pt(AnchorPlusDelta(Val(dragObjectStartPos).x, screenPoint.x - Val(dragStart).x, viewport),
       AnchorPlusDelta(Val(dragObjectStartPos).y, screenPoint.y - Val(dragStart).y, viewport))

\* a pointer move of a single pointer: a mouse move, or a touch move with one
\* finger down
PointerMove(screenPoint) ==
    \/ handleMouseMove(screenPoint)
    \/ touches = 1 /\ handleTouchMoveOne(screenPoint)

\* C2: while the mode is dragging-object, a pointer move (mouse or single
\* finger) commits for the dragged object the result of
\* constrainPositionToSpace for the anchor plus the scaled delta, changes no
\* other object, and every object that is inside the room before the move is
\* inside it after the move.
C2_DragStaysInside ==
    [][\A screenPoint \in Pts :
          (/\ mode = "dragging-object"
           /\ dragStart # Null
           /\ dragObjectStartPos # Null
           /\ ObjIndex(draggedObjectId) # 0
           /\ PointerMove(screenPoint))
          => \A i \in 1..Len(objects) :
                /\ objects'[i] =
                      IF objects[i].id = draggedObjectId
                      THEN [objects[i] EXCEPT !.position =
                              constrainPositionToSpace(objects[ObjIndex(draggedObjectId)],
                                                       DesiredPosition(screenPoint), space)]
                      ELSE objects[i]
                /\ Inside(objects[i], space) => Inside(objects'[i], space')]_vars

\* a drag has slid the sofa along the right wall: the sofa is within an inch
\* of the wall, inside the room, at its anchor's Y, and no pointer position
\* asks for the position it has (one move gave its X, a later one its Y)
C2_Witness ==
    /\ mode = "dragging-object"
    /\ dragStart # Null
    /\ dragObjectStartPos # Null
    /\ objects[1].position.x > Val(dragObjectStartPos).x
    /\ objects[1].position.y = Val(dragObjectStartPos).y
    /\ objects[1].position.x + 360 > 1440 - 10
    /\ \A screenPoint \in Pts : DesiredPosition(screenPoint) # objects[1].position
    /\ Inside(objects[1], space)

\* the rotation a rotation drag with the pointer at screenPoint asks for
RotationCandidate(screenPoint) ==
    JsMod(calculateRotationAngle(objects[ObjIndex(draggedObjectId)].position,
                                 screenToWorld(screenPoint.x, screenPoint.y, viewport))
              - rotationStartAngle + 360,
          360)

\* C3: while the mode is dragging-rotation, a pointer move leaves every object
\* as it is when the candidate rotation puts a vertex of the dragged object
\* outside the room (the position is not adjusted and the previous rotation is
\* kept), commits the candidate otherwise, and every object that is inside
\* the room before the move is inside it after the move.
C3_RotationRejected ==
    [][\A screenPoint \in Pts :
          (/\ mode = "dragging-rotation"
           /\ dragStart # Null
           /\ ObjIndex(draggedObjectId) # 0
           /\ PointerMove(screenPoint))
          => \A i \in 1..Len(objects) :
                /\ objects'[i] =
                      IF /\ objects[i].id = draggedObjectId
                         /\ Inside([objects[i] EXCEPT
                                       !.rotation = RotationCandidate(screenPoint)], space)
                      THEN [objects[i] EXCEPT !.rotation = RotationCandidate(screenPoint)]
                      ELSE objects[i]
                /\ Inside(objects[i], space) => Inside(objects'[i], space')]_vars

\* a rotation drag has turned the sofa, the sofa is inside the room, and a
\* pointer position asks for a rotation that would put a corner outside
C3_Witness ==
    /\ mode = "dragging-rotation"
    /\ dragStart # Null
    /\ ObjIndex(draggedObjectId) # 0
    /\ objects[ObjIndex(draggedObjectId)].rotation # 0
    /\ Inside(objects[ObjIndex(draggedObjectId)], space)
    /\ \E screenPoint \in Pts :
          ~Inside([objects[ObjIndex(draggedObjectId)] EXCEPT
                      !.rotation = RotationCandidate(screenPoint)], space)

\* a pointer-down of a single pointer: a mouse press, or the touch-start of
\* the first finger
PointerDown(screenPoint) ==
    \/ \E shiftKey \in BOOLEAN : handleMouseDown(screenPoint, shiftKey)
    \/ touches = 0 /\ touches' = 1 /\ handleTouchStartOne(screenPoint)

\* the squared distance in pixels between two screen points
DistSq(a, b) == (a.x - b.x) * (a.x - b.x) + (a.y - b.y) * (a.y - b.y)

\* the conditions of the rules (1) to (4) for a pointer-down at screenPoint
VertexHit(screenPoint) ==
    polygonEditState # Null /\ findVertexAtPoint(screenPoint) # NoIndex

EdgeHit(screenPoint) ==
    polygonEditState # Null /\ findEdgeAtPoint(screenPoint) # NoIndex

HandleHit(screenPoint) ==
    /\ ObjIndex(selectedObjectId) # 0
    /\ DistSq(screenPoint,
              getRotationHandlePosition(objects[ObjIndex(selectedObjectId)], viewport))
          <= 16 * 16

ObjectHit(screenPoint) ==
    \E i \in 1..Len(objects) :
        isPointInPolygon(screenToWorld(screenPoint.x, screenPoint.y, viewport),
                         getObjectWorldPolygon(objects[i]))

\* C4: on a pointer-down (mouse press or first finger) the mode is decided by
\* the first rule that matches: (1) polygon edit active and vertex hit:
\* dragging-vertex; (2) polygon edit active and edge hit: the mode is left as
\* it is, idle when it was idle; (3) the selected object exists and its
\* rotation handle is hit: dragging-rotation; (4) an object contains the
\* point: dragging-object; (5) otherwise: panning.
C4_PointerDownPriority ==
    [][\A screenPoint \in Pts :
          PointerDown(screenPoint) =>
             mode' = IF VertexHit(screenPoint) THEN "dragging-vertex"
                     ELSE IF EdgeHit(screenPoint) THEN mode
                     ELSE IF HandleHit(screenPoint) THEN "dragging-rotation"
                     ELSE IF ObjectHit(screenPoint) THEN "dragging-object"
                     ELSE "panning"]_vars

\* a press on a corner of the room during a polygon edit: the corner is on an
\* edge too, so rules (1) and (2) both match, and the mode is dragging-vertex
C4_Witness ==
    /\ mode = "dragging-vertex"
    /\ dragStart # Null
    /\ VertexHit(Val(dragStart))
    /\ EdgeHit(Val(dragStart))
    /\ PES.draggedVertexIndex # NoIndex

\* a pointer-up: the mouse button released or the mouse leaving the canvas
\* (both run handleMouseUp), or the last finger lifted
PointerUp ==
    \/ handleMouseUp
    \/ touches > 0 /\ touches' = 0 /\ handleTouchEnd(0)

\* no gesture is in progress: the mode is idle and every drag anchor is clear
Released ==
    /\ mode = "idle"
    /\ dragStart = Null
    /\ draggedObjectId = NullId
    /\ dragObjectStartPos = Null
    /\ vertexDragStart = Null
    /\ polygonEditState # Null => PES.draggedVertexIndex = NoIndex

\* C5: from every mode, a pointer-up (mouse up, mouse leave, or all touches
\* lifted) sets the mode to idle and clears dragStart, draggedObjectId,
\* dragObjectStartPos, vertexDragStart and polygonEditState.draggedVertexIndex.
C5_PointerUpReleases == [][PointerUp => Released']_vars

\* a vertex of the room has been dragged and the pointer released: the outline
\* has its four corners, one of them moved, and nothing is left of the drag
C5_Witness ==
    /\ Len(space) = 4
    /\ space # DefaultOutline
    /\ polygonEditState # Null
    /\ Released

\* a touch event that is not the touch-start of a first finger
LaterTouchEvent == touches > 0 /\ (TouchStart \/ TouchMove \/ TouchEnd)

\* C6: a touch-start with two fingers sets the mode to idle and clears the
\* drag anchor, which cancels the single-pointer gesture in progress; and while
\* a finger is down and the gesture is cancelled (mode idle, no drag anchor),
\* a touch event changes no object and no point of the room's outline, and
\* leaves the gesture cancelled for as long as a finger stays down.  So from
\* the two-finger touch-start until all fingers are lifted, touch moves change
\* only the viewport.
C6_TwoFingerCancels ==
    [][/\ \A pair \in TouchPairs :
             (touches' = 2 /\ handleTouchStartTwo(pair[1], pair[2]))
             => mode' = "idle" /\ dragStart' = Null /\ UNCHANGED <<space, objects>>
       /\ (LaterTouchEvent /\ mode = "idle" /\ dragStart = Null)
             => /\ UNCHANGED <<space, objects>>
                /\ touches' > 0 => mode' = "idle" /\ dragStart' = Null]_vars

\* a drag of the sofa was cancelled by a second finger, a pinch has zoomed the
\* view and one finger is still down: the sofa is off its anchor, the dragged
\* object is still recorded, and no gesture is in progress
C6_Witness ==
    /\ touches = 1
    /\ mode = "idle"
    /\ dragStart = Null
    /\ draggedObjectId # NullId
    /\ dragObjectStartPos # Null
    /\ objects[1].position # Val(dragObjectStartPos)
    /\ viewport.zoomLevel # 1000

\* C7: viewport.zoomLevel is within [0.1, 10] (100 to 10000 thousandths) in
\* every reachable state, whatever wheel ticks, pinch moves and view resets
\* have been made.
C7_ZoomInRange == 100 <= viewport.zoomLevel /\ viewport.zoomLevel <= 10000

\* a pinch that started at zoom 1 has spread the fingers to 16 times their
\* distance or closed them to a 16th of it, and the zoom is at a limit
C7_Witness ==
    /\ touches = 2
    /\ initialPinchDistance # Null
    /\ initialPinchZoom = 1000
    /\ viewport.zoomLevel \in {100, 10000}

\* Math.round(anchor + d / (viewport.scale * viewport.zoomLevel) * 10) for an
\* anchor coordinate in world units and a screen delta d in pixels
Anchored(anchor, d) ==
    (2 * (anchor * ScaleZoom(viewport) + d * 1000) + ScaleZoom(viewport))
        \div (2 * ScaleZoom(viewport))

\* the point asked for by the pointer at screenPoint, from an anchor point
AnchoredPoint(anchor, screenPoint) ==
    Pt(Anchored(anchor.x, screenPoint.x - Val(dragStart).x),
       Anchored(anchor.y, screenPoint.y - Val(dragStart).y))

\* the screen delta d in hundredths of an inch
ViewDelta(d) == Round(d * 10000, ScaleZoom(viewport))

\* C8 as amended: on a pointer move with a drag anchor, (a) in dragging-vertex
\* the dragged vertex is set to vertexDragStart plus the scaled delta from
\* dragStart; (b) in dragging-object the dragged object gets
\* constrainPositionToSpace of its current state and dragObjectStartPos plus
\* the scaled delta; (c) in dragging-rotation the rotation becomes the
\* candidate computed from rotationStartAngle and the pointer, or stays as it
\* is; in these three modes the anchors are left as they are.  (d) In panning
\* the offset grows by the delta from dragStart and dragStart is set to the
\* pointer position, so the next move adds the delta since this one.
C8_AnchoredRequests ==
    [][\A screenPoint \in Pts :
          (dragStart # Null /\ PointerMove(screenPoint)) =>
            /\ (/\ mode = "dragging-vertex"
                /\ polygonEditState # Null
                /\ vertexDragStart # Null
                /\ PES.draggedVertexIndex # NoIndex
                /\ getEditingPolygonWorldPoints # Null)
               => /\ IF PES.target.type = "space"
                     THEN space'[PES.draggedVertexIndex + 1] =
                              AnchoredPoint(Val(vertexDragStart), screenPoint)
                     ELSE objects'[ObjIndex(PES.target.objectId)].shape[PES.draggedVertexIndex + 1] =
                              toLocal(AnchoredPoint(Val(vertexDragStart), screenPoint),
                                      objects[ObjIndex(PES.target.objectId)])
                  /\ UNCHANGED <<dragStart, vertexDragStart>>
            /\ (/\ mode = "dragging-object"
                /\ dragObjectStartPos # Null
                /\ ObjIndex(draggedObjectId) # 0)
               => /\ objects'[ObjIndex(draggedObjectId)].position =
                        constrainPositionToSpace(
                            objects[ObjIndex(draggedObjectId)],
                            AnchoredPoint(Val(dragObjectStartPos), screenPoint), space)
                  /\ UNCHANGED <<dragStart, dragObjectStartPos>>
            /\ (mode = "dragging-rotation" /\ ObjIndex(draggedObjectId) # 0)
               => /\ objects'[ObjIndex(draggedObjectId)].rotation \in
                        { RotationCandidate(screenPoint),
                          objects[ObjIndex(draggedObjectId)].rotation }
                  /\ UNCHANGED <<dragStart, rotationStartAngle>>
            /\ mode = "panning"
               => /\ viewport'.offsetX =
                        viewport.offsetX + ViewDelta(screenPoint.x - Val(dragStart).x)
                  /\ viewport'.offsetY =
                        viewport.offsetY + ViewDelta(screenPoint.y - Val(dragStart).y)
                  /\ dragStart' = Some(screenPoint)]_vars

\* a pan has moved the view: the mode is panning, the zoom is 1 and the offset
\* is not the fitted one
C8_Witness ==
    /\ mode = "panning"
    /\ dragStart # Null
    /\ viewport.zoomLevel = 1000
    /\ viewport.scale = FitViewport(space).scale
    /\ viewport.offsetX # FitViewport(space).offsetX

\* C8 as stated: in every non-idle mode a pointer move leaves the anchor
\* recorded at pointer-down as it is, and the committed value is a function of
\* the anchors and the pointer position alone: the dragged object's position
\* is what constrainPositionToSpace gives for the object at its anchor
\* position.
C8_DependsOnAnchorOnly ==
    [][\A screenPoint \in Pts :
          (dragStart # Null /\ mode # "idle" /\ PointerMove(screenPoint)) =>
            /\ dragStart' = dragStart
            /\ (/\ mode = "dragging-object"
                /\ dragObjectStartPos # Null
                /\ ObjIndex(draggedObjectId) # 0)
               => objects'[ObjIndex(draggedObjectId)].position =
                     constrainPositionToSpace(
                         [objects[ObjIndex(draggedObjectId)] EXCEPT
                             !.position = Val(dragObjectStartPos)],
                         AnchoredPoint(Val(dragObjectStartPos), screenPoint), space)]_vars

\* C9: an operation that changes the position of an object that is inside the
\* room (a canvas drag by mouse or touch, an edit of X or Y in the Properties
\* panel) leaves every vertex of its world polygon inside the room's outline.
C9_NoMoveOutside ==
    [][\A i \in 1..Len(objects) :
          (/\ Len(objects') = Len(objects)
           /\ objects'[i].position # objects[i].position
           /\ Inside(objects[i], space))
          => Inside(objects'[i], space')]_vars

\* the position the scenario's drag asks for with the pointer at screenPoint
ScenarioDesired(screenPoint) == AnchoredPoint(Val(dragObjectStartPos), screenPoint)

OneFingerStart(screenPoint) ==
    touches = 0 /\ touches' = 1 /\ handleTouchStartOne(screenPoint)

OneFingerMove(screenPoint) ==
    /\ touches = 1 /\ touches' = 1
    /\ dragStart # Null
    /\ UNCHANGED pinchVars
    /\ handleTouchMoveOne(screenPoint)

OneFingerEnd == touches = 1 /\ touches' = 0 /\ handleTouchEnd(0)

\* C11 as amended: a single-finger touch start, move and end change the mode,
\* the selection, the objects, the room, the viewport and the drag anchors as
\* a mouse down without the shift key, a mouse move and a mouse up at the same
\* point do.  The hover feedback of a mouse move (idle mode, polygon edit
\* active) has no touch counterpart and is left out of the comparison.
C11_TouchAsPlainMouse ==
    [][\A screenPoint \in Pts :
          /\ OneFingerStart(screenPoint) => handleMouseDown(screenPoint, FALSE)
          /\ OneFingerMove(screenPoint) =>
                IF polygonEditState # Null /\ mode = "idle"
                THEN UNCHANGED <<docVars, polygonEditState, viewport, canvasVars>>
                ELSE handleMouseMove(screenPoint)
          /\ OneFingerEnd => handleMouseUp]_vars

\* a finger has selected the sofa and dragged it off its anchor
C11_Witness ==
    /\ touches = 1
    /\ mode = "dragging-object"
    /\ dragStart # Null
    /\ dragObjectStartPos # Null
    /\ ObjIndex(draggedObjectId) # 0
    /\ selectedObjectId = draggedObjectId
    /\ objects[ObjIndex(draggedObjectId)].position # Val(dragObjectStartPos)

\* C11 as stated: a single-finger touch start does what a mouse down at the
\* same point does, whether the shift key is held or not.
C11_TouchAsAnyMouseDown ==
    [][\A screenPoint \in Pts, shiftKey \in BOOLEAN :
          OneFingerStart(screenPoint) => handleMouseDown(screenPoint, shiftKey)]_vars

\* the polygon being edited as it is stored, and a world point as it is
\* stored in it: as it is for the room, in local coordinates for an object
EditedPoints == Val(getPolygonPoints)

StoredPoint(worldPoint) ==
    IF PES.target.type = "space" THEN worldPoint
    ELSE toLocal(worldPoint, objects[ObjIndex(PES.target.objectId)])

\* a mouse down at screenPoint, with no gesture in progress, that hits an edge
\* of the polygon being edited and no vertex
EdgePress(screenPoint, shiftKey) ==
    /\ polygonEditState # Null
    /\ getPolygonPoints # Null
    /\ mode = "idle"
    /\ dragStart = Null
    /\ findVertexAtPoint(screenPoint) = NoIndex
    /\ findEdgeAtPoint(screenPoint) # NoIndex
    /\ handleMouseDown(screenPoint, shiftKey)

\* C12: in polygon edit mode a pointer-down on an edge (no vertex hit) leaves
\* the mode idle and records no drag anchor; with shift held the polygon gains
\* exactly one point, the clicked world point, at list index edgeIndex + 1,
\* the other points keeping their values and order; without shift the polygon
\* is unchanged and measurementEdgeIndex becomes edgeIndex.
C12_EdgePress ==
    [][\A screenPoint \in EditPts, shiftKey \in BOOLEAN :
          EdgePress(screenPoint, shiftKey) =>
              /\ mode' = "idle"
              /\ dragStart' = Null
              /\ IF shiftKey
                 THEN getPolygonPoints' =
                        Some(InsertAt(EditedPoints, findEdgeAtPoint(screenPoint) + 1,
                                      StoredPoint(screenToWorld(screenPoint.x, screenPoint.y,
                                                                viewport))))
                 ELSE /\ getPolygonPoints' = getPolygonPoints
                      /\ PES'.measurementEdgeIndex = findEdgeAtPoint(screenPoint)]_vars

\* the object objects[i] contains the world point of screenPoint
Under(screenPoint, i) ==
    isPointInPolygon(screenToWorld(screenPoint.x, screenPoint.y, viewport),
                     getObjectWorldPolygon(objects[i]))

\* C13: a pointer-down that starts panning deselects; a pointer-down on an
\* object selects an object under the point that has the highest zIndex of
\* the objects under the point and records its position as the drag anchor; a
\* pointer-down on the rotation handle, or on a vertex or an edge during a
\* polygon edit, leaves the selection as it is.
C13_SelectionOnPointerDown ==
    [][\A screenPoint \in Pts :
          PointerDown(screenPoint) =>
             IF VertexHit(screenPoint) \/ EdgeHit(screenPoint) \/ HandleHit(screenPoint)
             THEN selectedObjectId' = selectedObjectId
             ELSE IF ObjectHit(screenPoint)
             THEN \E i \in 1..Len(objects) :
                     /\ Under(screenPoint, i)
                     /\ \A j \in 1..Len(objects) :
                            Under(screenPoint, j) => objects[j].zIndex <= objects[i].zIndex
                     /\ selectedObjectId' = objects[i].id
                     /\ dragObjectStartPos' = Some(objects[i].position)
             ELSE selectedObjectId' = NullId]_vars

\* the rectangle lies on the sofa and is listed after it; a press on both
\* has selected the rectangle
C13_Witness ==
    /\ mode = "dragging-object"
    /\ Len(objects) = 2
    /\ objects[1].zIndex < objects[2].zIndex
    /\ dragStart # Null
    /\ Under(Val(dragStart), 1)
    /\ Under(Val(dragStart), 2)
    /\ selectedObjectId = objects[2].id
    /\ dragObjectStartPos = Some(objects[2].position)

\* a step that submits the measurement form with this parsed value
SubmitStep(value) ==
    /\ polygonEditState # Null
    /\ PES.measurementEdgeIndex # NoIndex
    /\ handleMeasurementSubmit(value)
    /\ probe'.fn = "handleMeasurementSubmit"
    /\ probe'.value = value

\* n is Math.round(d * targetLength / sqrt(lenSq)): exactly when the length is
\* a whole number, and otherwise within half a unit for the whole numbers
\* that bracket the length
RoundedStretch(n, d, targetLength, lenSq) ==
    LET exact(len) == n = Round(d * targetLength, len)
        bracketed(len, a, b) ==
            /\ n = 0 \/ (n > 0) = (d > 0)
            /\ (2 * a - 1) * len <= 2 * b * targetLength
            /\ 2 * b * targetLength <= (2 * a + 1) * (len + 1)
        either(len) == IF len * len = lenSq THEN exact(len)
                       ELSE bracketed(len, Abs(n), Abs(d))
    IN  either(ISqrt(lenSq))

\* the edge with this index of the polygon exists and has a length
MeasurableEdge(points, edgeIndex) ==
    /\ edgeIndex >= 0
    /\ edgeIndex < Len(points)
    /\ points[edgeIndex + 1] # points[((edgeIndex + 1) % Len(points)) + 1]

\* C14: submitting a target length L for edge i of an n-point polygon replaces
\* only point (i+1) mod n, with round(P1 + (P2-P1) * (10L / |P1P2|)); every
\* other point, P1 included, is unchanged.  The edge (0,0)-(400,0) set to 60
\* inches gives (600,0) and the edge (0,0)-(300,400) set to 100 inches gives
\* (600,800).
C14_MeasurementStretchesSecondPoint ==
    [][\A value \in MeasurementValues :
          (/\ SubmitStep(value)
           /\ value # Null
           /\ Val(value) > 0
           /\ getPolygonPoints # Null
           /\ MeasurableEdge(Val(getPolygonPoints), PES.measurementEdgeIndex))
          => LET stretched(points, after, first, second, lenSq) ==
                    /\ Len(after) = Len(points)
                    /\ \A k \in 1..Len(points) : k # second => after[k] = points[k]
                    /\ RoundedStretch(after[second].x - points[first].x,
                                      points[second].x - points[first].x,
                                      Val(value), lenSq)
                    /\ RoundedStretch(after[second].y - points[first].y,
                                      points[second].y - points[first].y,
                                      Val(value), lenSq)
                    /\ (points[first] = Pt(0, 0) /\ points[second] = Pt(400, 0)
                            /\ Val(value) = 600) => after[second] = Pt(600, 0)
                    /\ (points[first] = Pt(0, 0) /\ points[second] = Pt(300, 400)
                            /\ Val(value) = 1000) => after[second] = Pt(600, 800)
                 edge(points, first, second) ==
                    /\ getPolygonPoints' # Null
                    /\ stretched(points, Val(getPolygonPoints'), first, second,
                                 DistSq(points[first], points[second]))
             IN  edge(Val(getPolygonPoints), PES.measurementEdgeIndex + 1,
                      ((PES.measurementEdgeIndex + 1) % Len(Val(getPolygonPoints))) + 1)]_vars

\* the edge (0,0)-(300,400) of a room was set to 100 inches
C14_Witness ==
    /\ probe.fn = "handleMeasurementSubmit"
    /\ probe.value = Some(1000)
    /\ PES.target.type = "space"
    /\ PES.measurementEdgeIndex = 0
    /\ Val(probe.points)[1] = Pt(0, 0)
    /\ Val(probe.points)[2] = Pt(300, 400)
    /\ space[1] = Pt(0, 0)
    /\ space[2] = Pt(600, 800)
    /\ \A k \in 3..Len(space) : space[k] = Val(probe.points)[k]

\* C15: a measurement submission with a non-numeric or a non-positive length,
\* with an edge index outside the polygon or for an edge of length zero
\* changes nothing: the polygon being edited, the room and the objects are as
\* before and measurementEdgeIndex is still selected.
C15_InvalidMeasurementIsNoOp ==
    [][\A value \in MeasurementValues :
          (/\ SubmitStep(value)
           /\ \/ value = Null
              \/ Val(value) <= 0
              \/ getPolygonPoints = Null
              \/ ~MeasurableEdge(Val(getPolygonPoints), PES.measurementEdgeIndex))
          => /\ getPolygonPoints' = getPolygonPoints
             /\ UNCHANGED <<space, objects>>
             /\ polygonEditState' # Null
             /\ PES'.measurementEdgeIndex = PES.measurementEdgeIndex]_vars

\* a valid length was submitted for the sixth edge of an L-shaped room after
\* a room of four points had been loaded over it: nothing changed
C15_Witness ==
    /\ probe.fn = "handleMeasurementSubmit"
    /\ probe.value # Null
    /\ Val(probe.value) > 0
    /\ PES.target.type = "space"
    /\ PES.measurementEdgeIndex >= Len(space)
    /\ probe.points = Some(space)

\* a mouse move to screenPoint while a vertex of the room's outline is dragged
OutlineVertexMove(screenPoint) ==
    /\ mode = "dragging-vertex"
    /\ dragStart # Null
    /\ vertexDragStart # Null
    /\ polygonEditState # Null
    /\ PES.target.type = "space"
    /\ PES.draggedVertexIndex # NoIndex
    /\ handleMouseMove(screenPoint)
    /\ probe' = [fn |-> "handleMouseMove", screenPoint |-> screenPoint]

\* C16: in dragging-vertex mode on the room's outline each pointer move sets
\* the dragged vertex to round(anchor + screenDelta / (scale * zoomLevel) * 10),
\* whether or not the objects are still inside the room, leaves every other
\* point of the outline as it is and changes no object.
C16_OutlineVertexDrag ==
    [][\A screenPoint \in EditPts :
          OutlineVertexMove(screenPoint) =>
             /\ space' = [space EXCEPT ![PES.draggedVertexIndex + 1] =
                                          AnchoredPoint(Val(vertexDragStart), screenPoint)]
             /\ objects' = objects]_vars

\* a corner of the room has been dragged into the room, past a corner of the
\* sofa, which is now outside the outline and has not moved
C16_Witness ==
    /\ mode = "dragging-vertex"
    /\ dragStart # Null
    /\ vertexDragStart # Null
    /\ polygonEditState # Null
    /\ PES.target.type = "space"
    /\ PES.draggedVertexIndex # NoIndex
    /\ probe.fn = "handleMouseMove"
    /\ space[PES.draggedVertexIndex + 1] = AnchoredPoint(Val(vertexDragStart), probe.screenPoint)
    /\ space[PES.draggedVertexIndex + 1] # Val(vertexDragStart)
    /\ objects = << DefaultSofa >>
    /\ ~isObjectInsideSpace(objects[1], space)

\* a mouse move to screenPoint while a vertex of an object's shape is dragged
ShapeVertexMove(screenPoint) ==
    /\ mode = "dragging-vertex"
    /\ dragStart # Null
    /\ vertexDragStart # Null
    /\ polygonEditState # Null
    /\ PES.target.type = "object"
    /\ ObjIndex(PES.target.objectId) # 0
    /\ PES.draggedVertexIndex # NoIndex
    /\ handleMouseMove(screenPoint)
    /\ probe' = [fn |-> "handleMouseMove", screenPoint |-> screenPoint]

\* C17: when the shape of an object is edited, each move of a vertex drag
\* writes the shape in local coordinates so that the object's world polygon
\* has the dragged vertex at the intended world point, and leaves every other
\* vertex of the shape as it is, whatever the object's position and rotation
\* and however many moves came before.
C17_ShapeVertexDrag ==
    [][\A screenPoint \in EditPts :
          ShapeVertexMove(screenPoint) =>
             LET moved(i, dragged) ==
                    /\ Len(objects'[i].shape) = Len(objects[i].shape)
                    /\ \A k \in 1..Len(objects[i].shape) :
                           k # dragged => objects'[i].shape[k] = objects[i].shape[k]
                    /\ getObjectWorldPolygon(objects'[i])[dragged] =
                           AnchoredPoint(Val(vertexDragStart), screenPoint)
                    /\ objects'[i].position = objects[i].position
                    /\ objects'[i].rotation = objects[i].rotation
             IN  moved(ObjIndex(PES.target.objectId), PES.draggedVertexIndex + 1)]_vars

\* the object objects[i] contains this world point
Contains(i, worldPoint) ==
    isPointInPolygon(worldPoint, getObjectWorldPolygon(objects[i]))

\* C18: findObjectAtPoint(p, objects) returns an object whose world polygon
\* contains p and whose zIndex is the highest of the objects that contain p,
\* and returns null exactly when no object contains p.
C18_TopmostObjectAtPoint ==
    probe.fn = "findObjectAtPoint" =>
        IF \E i \in 1..Len(objects) : Contains(i, probe.worldPoint)
        THEN /\ probe.result \in 1..Len(objects)
             /\ Contains(probe.result, probe.worldPoint)
             /\ \A j \in 1..Len(objects) :
                    Contains(j, probe.worldPoint) =>
                        objects[j].zIndex <= objects[probe.result].zIndex
        ELSE probe.result = 0

\* two objects contain the point and the one found is listed first and has
\* the higher zIndex
C18_Witness ==
    /\ probe.fn = "findObjectAtPoint"
    /\ Len(objects) = 2
    /\ Contains(1, probe.worldPoint)
    /\ Contains(2, probe.worldPoint)
    /\ objects[1].zIndex > objects[2].zIndex
    /\ probe.result = 1

\* the polygon of a recorded isPointInPolygon call
ProbedPolygon ==
    IF probe.index = 0 THEN space ELSE getObjectWorldPolygon(objects[probe.index])

\* C19 as amended: on polygons of fewer than three points nothing fails;
\* isPointInPolygon is false; findObjectAtPoint never returns an object whose
\* shape has fewer than three points; isObjectInsideSpace is false when the
\* outline has fewer than three points and the object has a vertex.  A shape
\* of fewer than three points is tested vertex by vertex as any other: the
\* object is inside when each of its vertices is in the outline, and an
\* object without vertices is inside every outline.
C19_DegradesOnMalformed ==
    /\ probe.fn = "isPointInPolygon" =>
          (Len(ProbedPolygon) < 3 => probe.result = FALSE)
    /\ probe.fn = "findObjectAtPoint" =>
          (probe.result # 0 => Len(objects[probe.result].shape) >= 3)
    /\ probe.fn = "isObjectInsideSpace" =>
          /\ (Len(space) < 3 /\ Len(objects[probe.index].shape) >= 1)
                => probe.result = FALSE
          /\ Len(objects[probe.index].shape) = 0 => probe.result = TRUE
          /\ (Len(space) >= 3 /\ Len(objects[probe.index].shape) < 3)
                => probe.result =
                      (\A k \in 1..Len(objects[probe.index].shape) :
                          isPointInPolygon(getObjectWorldPolygon(objects[probe.index])[k],
                                           space))

\* an object of two points in the default room was found to be inside it
C19_Witness ==
    /\ probe.fn = "isObjectInsideSpace"
    /\ Len(space) >= 3
    /\ Len(objects[probe.index].shape) = 2
    /\ probe.result = TRUE

\* C19 as stated: isObjectInsideSpace is false whenever the outline or the
\* shape has fewer than three points
C19_MalformedIsNeverInside ==
    /\ probe.fn = "isPointInPolygon" =>
          (Len(ProbedPolygon) < 3 => probe.result = FALSE)
    /\ probe.fn = "findObjectAtPoint" =>
          (probe.result # 0 => Len(objects[probe.result].shape) >= 3)
    /\ probe.fn = "isObjectInsideSpace" =>
          ((Len(space) < 3 \/ Len(objects[probe.index].shape) < 3)
              => probe.result = FALSE)

\* a shape point turned by a rotation of 0 or 90 degrees about the origin and
\* moved by the object's position
WorldVertex(obj, k) ==
    IF obj.rotation = 0
    THEN Pt(obj.shape[k].x + obj.position.x, obj.shape[k].y + obj.position.y)
    ELSE Pt(obj.position.x - obj.shape[k].y, obj.position.y + obj.shape[k].x)

\* C20: isObjectInsideSpace(obj, outline) is true exactly when every vertex of
\* the object's world polygon passes isPointInPolygon against the outline;
\* edges are not tested.  The sofa at the centre of the rectangular room is
\* inside and the sofa moved past the right wall by more than its half-width
\* is not.
C20_InsideIffEveryVertexInside ==
    probe.fn = "isObjectInsideSpace" =>
        LET tested(obj) ==
               /\ obj.rotation \in {0, 90}
               /\ probe.result =
                      (\A k \in 1..Len(obj.shape) : isPointInPolygon(WorldVertex(obj, k), space))
               /\ (space = DefaultOutline /\ obj = DefaultSofa) => probe.result = TRUE
               /\ (space = DefaultOutline /\ obj.shape = DefaultSofa.shape
                      /\ obj.rotation = 0 /\ obj.position.x - 360 > 1440)
                    => probe.result = FALSE
        IN  tested(objects[probe.index])

\* the triangle has its corners in the two arms of the L-shaped room and is
\* found inside, and the middle of its long edge is outside the room
C20_Witness ==
    /\ probe.fn = "isObjectInsideSpace"
    /\ probe.result = TRUE
    /\ space = LRoom
    /\ Len(objects[probe.index].shape) = 3
    /\ WorldVertex(objects[probe.index], 1) = Pt(1400, 500)
    /\ WorldVertex(objects[probe.index], 2) = Pt(500, 1100)
    /\ ~isPointInPolygon(Pt(950, 800), space)

\* C21: the pan and zoom of the user outlive the edits of the data: a step
\* that changes the room's outline or an object (an object drag, a rotation,
\* a vertex drag, a vertex insertion, a measured edge) leaves offsetX, offsetY,
\* baseScale, scale and zoomLevel as they were; the view is not fitted again.
C21_EditsKeepViewport ==
    [][(space' # space \/ objects' # objects) => viewport' = viewport]_vars

\* an edge of the room was set to a length that makes the room wider, and the
\* view is still the one fitted to the room as it was
C21_Witness ==
    /\ probe.fn = "handleMeasurementSubmit"
    /\ polygonEditState # Null
    /\ PES.target.type = "space"
    /\ probe.points # Some(space)
    /\ FitDefined(space)
    /\ viewport # FitViewport(space)
    /\ viewport = FitViewport(DefaultOutline)

\* C22 as amended: the view is fitted to the room on mount and by an explicit
\* reset view, which fits it to the outline of that moment; a change of the
\* outline does not fit it again.
C22_FitOnResetOnly ==
    [][/\ space' # space => viewport' = viewport
       /\ viewport' # viewport =>
             /\ FitDefined(space)
             /\ viewport' = FitViewport(space)
             /\ UNCHANGED <<space, objects>>]_vars

\* a measured edge made the room wider and a reset view then fitted the view
\* to the wider room
C22_Witness ==
    /\ probe.fn = "handleMeasurementSubmit"
    /\ polygonEditState # Null
    /\ PES.target.type = "space"
    /\ probe.points # Some(space)
    /\ FitDefined(space)
    /\ viewport = FitViewport(space)
    /\ viewport # FitViewport(DefaultOutline)

\* C22 as stated: whenever the outline changes, baseScale and the centring
\* offsets are those of the fit to the new outline
C22_FitOnOutlineChange ==
    [][(space' # space /\ FitDefined(space')) =>
          /\ viewport'.baseScale = FitViewport(space').baseScale
          /\ viewport'.offsetX = FitViewport(space').offsetX
          /\ viewport'.offsetY = FitViewport(space').offsetY]_vars

\* C23: after a wheel tick at the screen point s the zoom level has been
\* multiplied by 1.1 (zoom in) or by 1/1.1 (zoom out) and clamped to
\* [0.1, 10], and the world point that was under s before the tick is under s
\* after it, within the one world unit of screenToWorld's rounding.
C23_WheelKeepsPointUnderCursor ==
    [][\A mouse \in WheelPts, zoomOut \in BOOLEAN :
          handleWheel(mouse, zoomOut) =>
             LET steady(before, after) ==
                    /\ Abs(after.x - before.x) <= 1
                    /\ Abs(after.y - before.y) <= 1
             IN  /\ viewport'.zoomLevel =
                        Max(100, Min(10000, IF zoomOut THEN Round(viewport.zoomLevel * 10, 11)
                                                       ELSE Round(viewport.zoomLevel * 11, 10)))
                 /\ steady(screenToWorld(mouse.x, mouse.y, viewport),
                           screenToWorld(mouse.x, mouse.y, viewport'))]_vars

\* a move of the two fingers of a pinch to the positions of pair
PinchMove(pair) ==
    /\ touches = 2
    /\ touches' = 2
    /\ initialPinchDistance # Null
    /\ initialPinchDistance # Some(0)
    /\ initialPinchWorldPoint # Null
    /\ handleTouchMoveTwo(pair[1], pair[2])

\* C24: after every two-finger move of a pinch the zoom level is
\* clamp(initialZoom * currentDistance / initialDistance) and the world point
\* recorded at the first centre of the pinch is drawn (worldToScreen with the
\* new viewport, to the pixel) at the current centre, wherever that is.
C24_PinchKeepsWorldPointAtCentre ==
    [][\A pair \in TouchPairs :
          PinchMove(pair) =>
             LET at(drawn, centreX, centreY) ==
                    /\ Abs(drawn.x - centreX) <= 1
                    /\ Abs(drawn.y - centreY) <= 1
             IN  /\ viewport'.zoomLevel =
                        Max(100, Min(10000,
                            Round(initialPinchZoom * ISqrt(DistSq(pair[1], pair[2])),
                                  Val(initialPinchDistance))))
                 /\ at(worldToScreen(Val(initialPinchWorldPoint), viewport'),
                       (pair[1].x + pair[2].x) \div 2, (pair[1].y + pair[2].y) \div 2)
                 /\ UNCHANGED <<initialPinchDistance, initialPinchZoom, initialPinchWorldPoint>>]_vars

\* a pinch that began 50 pixels wide around the room's centre is now 200
\* pixels wide around (200,200): the zoom is fourfold and the room's centre is
\* drawn at (200,200)
C24_Witness ==
    /\ touches = 2
    /\ initialPinchDistance = Some(50)
    /\ initialPinchZoom = 1000
    /\ initialPinchWorldPoint = Some(Pt(720, 600))
    /\ viewport.zoomLevel = 4000
    /\ Abs(worldToScreen(Pt(720, 600), viewport).x - 200) <= 1
    /\ Abs(worldToScreen(Pt(720, 600), viewport).y - 200) <= 1

-----------------------------------------------------------------------------
(* The object palette: rectangles of typed dimensions are added to the     *)
(* default document. parseFloat accepts decimals, so the typed dimensions  *)
(* are kept in hundredths of an inch and, in this specification only,      *)
(* every stored length is in 1/PaletteScale of a tenth of an inch, the     *)
(* unit in which half of a typed dimension is exact.                       *)

PaletteScale == 20

MaxPaletteObjects == 3

\* parseFloat of the width and height fields, in hundredths of an inch; Null
\* is NaN (an empty or non-numeric field)
PaletteEntries == { Null, Some(0 - 100), Some(0), Some(50), Some(1800),
                    Some(3600), Some(3650), Some(8400) }

PaletteOutlines ==
    { DefaultOutline, << Pt(0, 0), Pt(1445, 0), Pt(1445, 1201), Pt(0, 1201) >> }

\* createRectangle for dimensions in hundredths of an inch:
\* (widthInches * 10) / 2 tenths of an inch, without rounding
createRectangleOfEntry(width, height) ==
    LET w == (width * 10 * PaletteScale) \div (100 * 2)
        h == (height * 10 * PaletteScale) \div (100 * 2)
    IN  << Pt(0 - w, 0 - h), Pt(w, 0 - h), Pt(w, h), Pt(0 - w, h) >>

\* getPolygonCenter: the middle of the bounding box, in tenths of an inch
\* times PaletteScale (the middle may be half a tenth)
getPolygonCenter(points) ==
    LET mid(bounds) ==
            Pt(((bounds.minX + bounds.maxX) * PaletteScale) \div 2,
               ((bounds.minY + bounds.maxY) * PaletteScale) \div 2)
    IN  mid(getPolygonBounds(points))

\* App: the highest zIndex of the variation's objects, 0 without objects
maxZIndex ==
    LET highest(zs) == CHOOSE z \in zs : \A y \in zs : y <= z
    IN  highest({0} \cup { objects[i].zIndex : i \in 1..Len(objects) })

\* ObjectPalette.handleAddRectangle with App.handleAddObject: an unusable
\* dimension raises the alert and adds nothing; otherwise the rectangle is
\* appended at the rounded centre of the room and selected
handleAddRectangle(width, height) ==
    IF width = Null \/ height = Null \/ Val(width) <= 0 \/ Val(height) <= 0
    THEN /\ probe' = [fn |-> "handleAddRectangle", width |-> width,
                      height |-> height, alert |-> TRUE]
         /\ UNCHANGED <<objects, selectedObjectId>>
    ELSE LET newObject(spaceCenter, id) ==
                [id |-> id,
                 shape |-> createRectangleOfEntry(Val(width), Val(height)),
                 position |-> Pt(Round(spaceCenter.x, PaletteScale) * PaletteScale,
                                 Round(spaceCenter.y, PaletteScale) * PaletteScale),
                 rotation |-> 0,
                 zIndex |-> maxZIndex + 1]
             add(obj) == /\ objects' = Append(objects, obj)
                         /\ selectedObjectId' = obj.id
         IN  /\ add(newObject(getPolygonCenter(space),
                              << "obj-rect-1", "obj-rect-2", "obj-rect-3" >>[Len(objects)]))
             /\ probe' = [fn |-> "handleAddRectangle", width |-> width,
                          height |-> height, alert |-> FALSE]

InitPalette ==
    /\ space \in PaletteOutlines
    /\ objects = << [DefaultSofa EXCEPT
                        !.shape = [i \in 1..Len(DefaultSofa.shape) |->
                                      Pt(DefaultSofa.shape[i].x * PaletteScale,
                                         DefaultSofa.shape[i].y * PaletteScale)],
                        !.position = Pt(DefaultSofa.position.x * PaletteScale,
                                        DefaultSofa.position.y * PaletteScale)] >>
    /\ selectedObjectId = NullId
    /\ polygonEditState = Null
    /\ viewport = FitViewport(space)
    /\ mode = "idle"
    /\ dragStart = Null
    /\ draggedObjectId = NullId
    /\ dragObjectStartPos = Null
    /\ rotationStartAngle = 0
    /\ initialPinchDistance = Null
    /\ initialPinchZoom = 1000
    /\ initialPinchWorldPoint = Null
    /\ vertexDragStart = Null
    /\ touches = 0
    /\ steps = 0
    /\ probe = NoProbe

AddRectangle ==
    /\ Len(objects) < MaxPaletteObjects
    /\ \E width \in PaletteEntries, height \in PaletteEntries :
          handleAddRectangle(width, height)
    /\ UNCHANGED <<space, polygonEditState, viewport, canvasVars, pinchVars,
                   touches, steps>>

NextPalette == AddRectangle

SpecPalette == InitPalette /\ [][NextPalette]_vars

\* the coordinates of a point are whole tenths of an inch
WholeTenths(p) == p.x % PaletteScale = 0 /\ p.y % PaletteScale = 0

\* C25: every stored linear coordinate (outline points, shape points, object
\* positions) is a whole number of tenths of an inch after rectangles of
\* user-entered inch dimensions were added from the palette.
C25_StoredCoordinatesAreWholeTenths ==
    \A i \in 1..Len(objects) :
        /\ WholeTenths(objects[i].position)
        /\ \A k \in 1..Len(objects[i].shape) : WholeTenths(objects[i].shape[k])

\* C26: every object's rotation is within [0, 360) after any sequence of
\* rotation drags and Properties-panel rotation edits.
C26_RotationInRange ==
    \A i \in 1..Len(objects) : 0 <= objects[i].rotation /\ objects[i].rotation < 360

\* C27: a pointer-down on the rotation handle of the selected object (no
\* vertex or edge of an edited polygon being hit) enters dragging-rotation and
\* records
\* rotationStartAngle = angle(object.position, pointer) - object.rotation.
\* From then on the candidate rotation for any pointer position is the
\* rotation at pointer-down plus the change of the pointer's angle about the
\* object position, modulo 360, and for the pointer-down position itself it
\* is the rotation at pointer-down.
C27_RotationStartAngle ==
    [][\A screenPoint \in Pts :
          (/\ PointerDown(screenPoint)
           /\ ~VertexHit(screenPoint)
           /\ ~EdgeHit(screenPoint)
           /\ HandleHit(screenPoint))
          => LET down(object, angleAtDown) ==
                    /\ rotationStartAngle' = angleAtDown - object.rotation
                    /\ \A q \in Pts :
                          LET candidate ==
                                  JsMod(calculateRotationAngle(
                                            object.position,
                                            screenToWorld(q.x, q.y, viewport'))
                                        - rotationStartAngle' + 360, 360)
                              turned ==
                                  object.rotation
                                  + calculateRotationAngle(
                                        object.position,
                                        screenToWorld(q.x, q.y, viewport'))
                                  - angleAtDown
                          IN  /\ (candidate - turned) % 360 = 0
                              /\ (q = screenPoint /\ object.rotation \in 0..359)
                                    => candidate = object.rotation
             IN  /\ mode' = "dragging-rotation"
                 /\ ObjIndex(draggedObjectId') # 0
                 /\ objects' = objects
                 /\ down(objects[ObjIndex(draggedObjectId')],
                         calculateRotationAngle(
                             objects[ObjIndex(draggedObjectId')].position,
                             screenToWorld(screenPoint.x, screenPoint.y, viewport)))]_vars

\* the sofa was given the rotation 180 in the Properties panel and its
\* rotation handle, straight above its position (angle 270), is held
C27_Witness ==
    /\ mode = "dragging-rotation"
    /\ ObjIndex(draggedObjectId) # 0
    /\ objects[ObjIndex(draggedObjectId)].rotation = 180
    /\ rotationStartAngle = 90
    /\ dragStart = Some(Pt(432, 240))

\* the pointer is released: the mouse button, or the last finger
LastPointerUp == MouseUp \/ (TouchEnd /\ touches' = 0)

\* C28: in polygon edit mode a pointer-up leaves draggedVertexIndex null and
\* keeps measurementEdgeIndex as it is; entering the edit mode creates the
\* edit state with both null, and a press that starts a vertex drag sets
\* measurementEdgeIndex to null.
C28_IndexResets ==
    [][/\ (LastPointerUp /\ polygonEditState # Null)
          => /\ polygonEditState' # Null
             /\ Val(polygonEditState').draggedVertexIndex = NoIndex
             /\ Val(polygonEditState').measurementEdgeIndex = PES.measurementEdgeIndex
       /\ (polygonEditState = Null /\ polygonEditState' # Null)
          => /\ Val(polygonEditState').draggedVertexIndex = NoIndex
             /\ Val(polygonEditState').measurementEdgeIndex = NoIndex
       /\ (mode # "dragging-vertex" /\ mode' = "dragging-vertex")
          => /\ polygonEditState' # Null
             /\ Val(polygonEditState').draggedVertexIndex # NoIndex
             /\ Val(polygonEditState').measurementEdgeIndex = NoIndex]_vars

\* a vertex drag that changed the room's outline has ended: the pointer is up
\* and no vertex is held
C28_Witness ==
    /\ polygonEditState # Null
    /\ PES.draggedVertexIndex = NoIndex
    /\ mode = "idle"
    /\ space # DefaultOutline
    /\ Len(space) = Len(DefaultOutline)

\* C28 as stated: after a pointer-up in polygon edit mode both
\* draggedVertexIndex and measurementEdgeIndex are null.
C28_BothResetOnPointerUp ==
    [][(LastPointerUp /\ polygonEditState # Null)
          => /\ polygonEditState' # Null
             /\ Val(polygonEditState').draggedVertexIndex = NoIndex
             /\ Val(polygonEditState').measurementEdgeIndex = NoIndex]_vars

\* the squared distance in pixels from a screen point to a vertex of the edited
\* polygon as it is drawn
VertexDistSq(screenPoint, worldPoint) ==
    DistSq(worldToScreen(worldPoint, viewport), screenPoint)

\* the 0-based index of the vertex of the edited polygon nearest to the
\* pointer among those within 10 pixels, the lowest index among equidistant
\* ones, or NoIndex
NearestVertexAtPoint(screenPoint) ==
    LET nearest(pts) ==
            LET hits == { i \in 1..Len(pts) : VertexDistSq(screenPoint, pts[i]) <= 10 * 10 }
            IN  IF hits = {} THEN NoIndex
                ELSE (CHOOSE i \in hits :
                         \A j \in hits :
                            \/ VertexDistSq(screenPoint, pts[i]) < VertexDistSq(screenPoint, pts[j])
                            \/ /\ VertexDistSq(screenPoint, pts[i]) = VertexDistSq(screenPoint, pts[j])
                               /\ i <= j) - 1
    IN  IF getEditingPolygonWorldPoints = Null THEN NoIndex
        ELSE nearest(Val(getEditingPolygonWorldPoints))

\* C29: findVertexAtPoint returns null when no vertex of the edited polygon is
\* within 10 screen pixels of the pointer, and otherwise the nearest such
\* vertex, the lowest index winning among equidistant ones.
C29_NearestVertex ==
    \A screenPoint \in EditPts :
        findVertexAtPoint(screenPoint) = NearestVertexAtPoint(screenPoint)

-----------------------------------------------------------------------------
(* The comparison view: two canvases side by side, each mounted with its    *)
(* variation, selectedObjectId = null, polygonEditState = null and no-op    *)
(* callbacks. The variables hold the canvas under the pointer and its       *)
(* variation; the other canvas, its component state and its variation are   *)
(* kept in probe, and the pointer changes canvas between gestures.          *)

\* Canvas.handleMouseDown (touch = FALSE) and the one-finger handleTouchStart
\* (touch = TRUE) with the props of the comparison view: a press on an object
\* calls onSelectObject, which does nothing, and starts the drag in the
\* component state; every other press is the handler as it is
ViewOnlyPointerDown(screenPoint, touch) ==
    LET press(clickedObject) ==
            IF clickedObject # 0 THEN
                /\ mode' = "dragging-object"
                /\ draggedObjectId' = objects[clickedObject].id
                /\ dragStart' = Some(screenPoint)
                /\ dragObjectStartPos' = Some(objects[clickedObject].position)
                /\ UNCHANGED <<docVars, polygonEditState, viewport, rotationStartAngle,
                               vertexDragStart>>
            ELSE IF touch THEN handleTouchStartOne(screenPoint)
            ELSE handleMouseDown(screenPoint, FALSE)
    IN  press(findObjectAtPoint(screenToWorld(screenPoint.x, screenPoint.y, viewport),
                                objects))

\* the mutant of ViewOnlyPointerMove that calls the editor's callbacks
ViewOnlyPointerMoveEditing(screenPoint, touch) ==
    IF touch THEN handleTouchMoveOne(screenPoint) ELSE handleMouseMove(screenPoint)

\* Canvas.handleMouseMove and the one-finger handleTouchMove with the props of
\* the comparison view: in dragging-object the constrained position goes to
\* onUpdateObjectPosition, which does nothing; every other move is the
\* handler as it is
ViewOnlyPointerMove(screenPoint, touch) ==
    IF mode = "dragging-object" /\ draggedObjectId # NullId /\ dragObjectStartPos # Null
    THEN UNCHANGED <<docVars, polygonEditState, viewport, canvasVars>>
    ELSE IF touch THEN handleTouchMoveOne(screenPoint)
    ELSE handleMouseMove(screenPoint)

\* the state of a mounted canvas and its variation
CanvasOf(outline, objs, v, canvas, pinch) ==
    [space |-> outline, objects |-> objs, viewport |-> v, canvas |-> canvas, pinch |-> pinch]

\* handleEnterComparisonMode: the selection is cleared; the left canvas shows
\* the default variation, the right one a variation with a six-corner room
InitCompare ==
    /\ space = DefaultOutline
    /\ objects = << DefaultSofa >>
    /\ selectedObjectId = NullId
    /\ polygonEditState = Null
    /\ viewport = FitViewport(space)
    /\ mode = "idle"
    /\ dragStart = Null
    /\ draggedObjectId = NullId
    /\ dragObjectStartPos = Null
    /\ rotationStartAngle = 0
    /\ initialPinchDistance = Null
    /\ initialPinchZoom = 1000
    /\ initialPinchWorldPoint = Null
    /\ vertexDragStart = Null
    /\ touches = 0
    /\ steps = 0
    /\ probe = [fn |-> "ComparisonView", side |-> "left",
                other |-> CanvasOf(LRoom,
                                   << [DefaultSofa EXCEPT !.position = Pt(400, 300)] >>,
                                   FitViewport(LRoom),
                                   << "idle", Null, NullId, Null, 0, Null >>,
                                   << Null, 1000, Null >>)]

CompareMouseDown ==
    /\ Step
    /\ \E screenPoint \in Pts : ViewOnlyPointerDown(screenPoint, FALSE)
    /\ UNCHANGED <<pinchVars, touches, probe>>

CompareMouseMove ==
    /\ IF mode = "panning" /\ dragStart # Null THEN Step ELSE UNCHANGED steps
    /\ \E screenPoint \in Pts : ViewOnlyPointerMove(screenPoint, FALSE)
    /\ UNCHANGED <<pinchVars, touches, probe>>

CompareTouchStart ==
    /\ Step
    /\ \E n \in (touches + 1)..MaxFingers :
        /\ touches' = n
        /\ IF n = 2
           THEN \E pair \in TouchPairs : handleTouchStartTwo(pair[1], pair[2])
           ELSE /\ \E screenPoint \in Pts : ViewOnlyPointerDown(screenPoint, TRUE)
                /\ UNCHANGED pinchVars
    /\ UNCHANGED probe

CompareTouchMove ==
    /\ IF touches = 1 /\ mode = "panning" /\ dragStart # Null THEN Step ELSE UNCHANGED steps
    /\ touches > 0
    /\ IF touches = 2 /\ initialPinchDistance # Null /\ initialPinchDistance # Some(0)
          /\ initialPinchWorldPoint # Null
       THEN \E pair \in TouchPairs : handleTouchMoveTwo(pair[1], pair[2])
       ELSE IF touches = 1 /\ dragStart # Null
       THEN \E screenPoint \in Pts : ViewOnlyPointerMove(screenPoint, TRUE)
       ELSE UNCHANGED <<docVars, polygonEditState, viewport, canvasVars>>
    /\ UNCHANGED <<pinchVars, touches, probe>>

\* the pointer goes to the other canvas (the mouse has left this one, which
\* releases it, and no finger is down)
SwitchCanvas ==
    /\ mode = "idle"
    /\ touches = 0
    /\ probe' = [probe EXCEPT
                    !.side = IF probe.side = "left" THEN "right" ELSE "left",
                    !.other = CanvasOf(space, objects, viewport, canvasVars, pinchVars)]
    /\ space' = probe.other.space
    /\ objects' = probe.other.objects
    /\ viewport' = probe.other.viewport
    /\ mode' = probe.other.canvas[1]
    /\ dragStart' = probe.other.canvas[2]
    /\ draggedObjectId' = probe.other.canvas[3]
    /\ dragObjectStartPos' = probe.other.canvas[4]
    /\ rotationStartAngle' = probe.other.canvas[5]
    /\ vertexDragStart' = probe.other.canvas[6]
    /\ initialPinchDistance' = probe.other.pinch[1]
    /\ initialPinchZoom' = probe.other.pinch[2]
    /\ initialPinchWorldPoint' = probe.other.pinch[3]
    /\ UNCHANGED <<selectedObjectId, polygonEditState, touches, steps>>

NextCompare ==
    \/ CompareMouseDown
    \/ CompareMouseMove
    \/ MouseUp
    \/ Wheel
    \/ CompareTouchStart
    \/ CompareTouchMove
    \/ TouchEnd
    \/ SwitchCanvas

SpecCompare == InitCompare /\ [][NextCompare]_vars

\* the variation shown by the canvas on a side, and that canvas's viewport
VariationOf(side) ==
    IF probe.side = side THEN [space |-> space, objects |-> objects]
    ELSE [space |-> probe.other.space, objects |-> probe.other.objects]

ViewportOf(side) == IF probe.side = side THEN viewport ELSE probe.other.viewport

\* C30: in comparison mode no mouse or touch gesture on either canvas changes
\* a variation's outline or objects (positions, rotations, shapes) or the
\* selection, and a step that changes one canvas's viewport is a gesture on
\* that canvas and leaves the other canvas's viewport as it is.
C30_ComparisonIsViewOnly ==
    [][/\ selectedObjectId' = NullId
       /\ polygonEditState' = Null
       /\ \A side \in {"left", "right"} :
             /\ VariationOf(side)' = VariationOf(side)
             /\ ViewportOf(side)' # ViewportOf(side)
                   => /\ probe.side = side
                      /\ probe'.side = side
                      /\ \A other \in {"left", "right"} \ {side} :
                            ViewportOf(other)' = ViewportOf(other)]_vars

\* the right canvas holds its sofa in a drag and has its fitted view, while
\* the left canvas was zoomed
C30_Witness ==
    /\ probe.fn = "ComparisonView"
    /\ probe.side = "right"
    /\ mode = "dragging-object"
    /\ draggedObjectId = DefaultSofa.id
    /\ ViewportOf("right") = FitViewport(LRoom)
    /\ ViewportOf("left").zoomLevel # 1000
    /\ VariationOf("right").objects[1].position = Pt(400, 300)

\* the point counts of the stored polygons: the outline, then each object's shape
PointCounts == << Len(space) >> \o [i \in 1..Len(objects) |-> Len(objects[i].shape)]

\* the position in PointCounts of the polygon being edited
EditedCount ==
    IF PES.target.type = "space" THEN 1 ELSE ObjIndex(PES.target.objectId) + 1

\* C31: canvas polygon editing never removes a point: every step of a polygon
\* edit (vertex drag, edge measurement, presses, releases) keeps the point
\* count of the outline and of every shape, except the shift-press on an edge,
\* which adds exactly one point to the edited polygon; no polygon has fewer
\* than 3 points.
C31_PointCounts ==
    [][/\ Len(objects') = Len(objects)
       /\ \A k \in 1..Len(PointCounts) : PointCounts'[k] >= 3
       /\ IF /\ polygonEditState # Null
             /\ polygonEditState' = polygonEditState
             /\ mode' = mode
             /\ steps' = steps + 1
             /\ \E screenPoint \in EditPts :
                /\ getPolygonPoints # Null
                /\ findVertexAtPoint(screenPoint) = NoIndex
                /\ findEdgeAtPoint(screenPoint) # NoIndex
                /\ handleMouseDown(screenPoint, TRUE)
          THEN PointCounts' = [PointCounts EXCEPT ![EditedCount] = @ + 1]
          ELSE PointCounts' = PointCounts]_vars

\* a vertex was inserted into the room's outline and a vertex is being dragged
C31_Witness ==
    /\ polygonEditState # Null
    /\ PES.target.type = "space"
    /\ Len(space) = Len(DefaultOutline) + 1
    /\ mode = "dragging-vertex"
    /\ PES.draggedVertexIndex # NoIndex

\* C32: while the mode is idle a mouse move leaves the outline, the objects,
\* the selection, the viewport and the drag state as they are; during a
\* polygon edit it sets the hover fields to the vertex under the pointer and,
\* when no vertex is hit, the edge under the pointer, so that at most one of
\* the two is set; without a polygon edit it changes nothing.
C32_IdleMoveOnlyHovers ==
    [][\A screenPoint \in EditPts :
          (/\ mode = "idle"
           /\ probe' = [fn |-> "handleMouseMove", screenPoint |-> screenPoint]
           /\ handleMouseMove(screenPoint))
          => /\ UNCHANGED <<space, objects, selectedObjectId, viewport, canvasVars>>
             /\ polygonEditState' =
                   IF polygonEditState = Null THEN Null
                   ELSE Some([PES EXCEPT
                                !.hoveredVertexIndex = findVertexAtPoint(screenPoint),
                                !.hoveredEdgeIndex =
                                    IF findVertexAtPoint(screenPoint) # NoIndex THEN NoIndex
                                    ELSE findEdgeAtPoint(screenPoint)])
             /\ polygonEditState' # Null
                   => \/ Val(polygonEditState').hoveredVertexIndex = NoIndex
                      \/ Val(polygonEditState').hoveredEdgeIndex = NoIndex]_vars

\* the pointer rests on a corner of the edited polygon, which is on two of its
\* edges: the vertex is hovered and no edge is
C32_Witness ==
    /\ mode = "idle"
    /\ probe.fn = "handleMouseMove"
    /\ polygonEditState # Null
    /\ PES.hoveredVertexIndex # NoIndex
    /\ PES.hoveredVertexIndex = findVertexAtPoint(probe.screenPoint)
    /\ findEdgeAtPoint(probe.screenPoint) # NoIndex
    /\ PES.hoveredEdgeIndex = NoIndex

\* the outline is the rectangle [(0,0),(W,0),(W,H),(0,H)]
RectangularRoom ==
    /\ Len(space) = 4
    /\ space[3].x > 0
    /\ space[3].y > 0
    /\ space = << Pt(0, 0), Pt(space[3].x, 0), space[3], Pt(0, space[3].y) >>

HalfOpen(point) ==
    /\ 0 <= point.x /\ point.x < space[3].x
    /\ 0 <= point.y /\ point.y < space[3].y

\* C33: against the rectangular outline [(0,0),(W,0),(W,H),(0,H)]
\* isPointInPolygon(p) is true exactly when 0 <= p.x < W and 0 <= p.y < H,
\* and isObjectInsideSpace is true exactly when every corner of the object is
\* in that half-open rectangle: flush against the left and top walls is
\* inside, a corner on the right or bottom wall is not.
C33_HalfOpenBoundary ==
    RectangularRoom =>
        /\ (probe.fn = "isPointInPolygon" /\ probe.index = 0)
              => (probe.result <=> HalfOpen(probe.point))
        /\ probe.fn = "isObjectInsideSpace"
              => (probe.result <=>
                     \A i \in 1..Len(objects[probe.index].shape) :
                        HalfOpen(getObjectWorldPolygon(objects[probe.index])[i]))

\* a point on the right wall was found outside
C33_Witness ==
    /\ RectangularRoom
    /\ probe.fn = "isPointInPolygon"
    /\ probe.index = 0
    /\ probe.point.x = space[3].x
    /\ probe.point.y > 0 /\ probe.point.y < space[3].y
    /\ probe.result = FALSE

\* the sofa flush against the left and top walls was found inside
C33_WitnessFlush ==
    /\ RectangularRoom
    /\ probe.fn = "isObjectInsideSpace"
    /\ objects[probe.index].position = Pt(360, 180)
    /\ objects[probe.index].rotation = 0
    /\ probe.result = TRUE

\* C34: the mode is idle exactly when dragStart is null; in dragging-object
\* mode draggedObjectId and dragObjectStartPos are set; in dragging-vertex
\* mode vertexDragStart is set.
C34_ModeAndAnchors ==
    /\ (mode = "idle") <=> (dragStart = Null)
    /\ mode = "dragging-object" => (draggedObjectId # NullId /\ dragObjectStartPos # Null)
    /\ mode = "dragging-vertex" => vertexDragStart # Null


\* a second finger cancelled the drag of an object: the mode is idle and the
\* anchor is null while the dragged object is still recorded
C34_Witness ==
    /\ touches = 2
    /\ mode = "idle"
    /\ dragStart = Null
    /\ draggedObjectId # NullId
    /\ dragObjectStartPos # Null

\* a vertex of the edited polygon is held
C34_WitnessVertex ==
    /\ mode = "dragging-vertex"
    /\ dragStart # Null
    /\ vertexDragStart # Null

\* C35: draggedVertexIndex is set only while the mode is dragging-vertex.
C35_DraggedVertexOnlyInVertexMode ==
    (polygonEditState # Null /\ PES.draggedVertexIndex # NoIndex) => mode = "dragging-vertex"


-----------------------------------------------------------------------------

(* App: projects and variations.  probe holds App's projectsState (the      *)
(* projects with their variations, the current ids, and the number of      *)
(* handler calls so far, from which the ids are made in place of Date.now() *)
(* and Math.random()).  The                                                 *)
(* outline and the objects of the current variation are the variables space *)
(* and objects, which the Canvas receives and whose handlers it calls; the  *)
(* copy in probe is brought up to date whenever an App handler reads the    *)
(* state.                                                                   *)

\* the calls of App's project, variation and object-list handlers in a
\* behaviour
MaxAppEvents == 3

currentProject(ps) ==
    LET found(hits) ==
            IF hits = {} THEN Null
            ELSE Some(ps.projects[CHOOSE p \in hits : \A q \in hits : p <= q])
    IN  found({p \in 1..Len(ps.projects) : ps.projects[p].id = ps.currentProjectId})

currentVariation(ps) ==
    LET found(variations, hits) ==
            IF hits = {} THEN Null
            ELSE Some(variations[CHOOSE v \in hits : \A w \in hits : v <= w])
        find(variations) ==
            found(variations,
                  {v \in 1..Len(variations) : variations[v].id = ps.currentVariationId})
    IN  IF currentProject(ps) = Null THEN Null
        ELSE find(Val(currentProject(ps)).variations)

\* the state after updateCurrentVariation(variation => ({...variation, space, objects}))
updateCurrentVariation(ps, newSpace, newObjects) ==
    LET updated(variation) ==
            IF variation.id = ps.currentVariationId
            THEN [variation EXCEPT !.space = newSpace, !.objects = newObjects]
            ELSE variation
        inProject(project) ==
            IF project.id = ps.currentProjectId
            THEN [project EXCEPT !.variations =
                     [v \in 1..Len(project.variations) |-> updated(project.variations[v])]]
            ELSE project
    IN  IF currentVariation(ps) = Null THEN ps
        ELSE [ps EXCEPT !.projects =
                 [p \in 1..Len(ps.projects) |-> inProject(ps.projects[p])]]

projectsState == updateCurrentVariation(probe, space, objects)

\* setProjectsState and the render that follows: appState is the current
\* variation, the Canvas keeps its own state and App its polygonEditState
setProjectsState(ps, selected) ==
    /\ ps.events < MaxAppEvents
    /\ probe' = [ps EXCEPT !.events = @ + 1]
    /\ selectedObjectId' = selected
    /\ space' = IF currentVariation(ps) = Null THEN << >>
                ELSE Val(currentVariation(ps)).space
    /\ objects' = IF currentVariation(ps) = Null THEN << >>
                  ELSE Val(currentVariation(ps)).objects
    /\ UNCHANGED <<polygonEditState, viewport, canvasVars, pinchVars, touches, steps>>

\* loadInitialState without stored state: migrateOldState(getDefaultState())
InitApp ==
    /\ probe = [fn |-> "App",
                projects |-> << [id |-> "proj-0", name |-> "My Space",
                                 variations |-> << [id |-> "var-0", name |-> "Original",
                                                    space |-> DefaultOutline,
                                                    objects |-> << DefaultSofa >>] >>] >>,
                currentProjectId |-> "proj-0",
                currentVariationId |-> "var-0",
                events |-> 0]
    /\ space = DefaultOutline
    /\ objects = << DefaultSofa >>
    /\ selectedObjectId = NullId
    /\ polygonEditState = Null
    /\ viewport = FitViewport(DefaultOutline)
    /\ mode = "idle"
    /\ dragStart = Null
    /\ draggedObjectId = NullId
    /\ dragObjectStartPos = Null
    /\ rotationStartAngle = 0
    /\ initialPinchDistance = Null
    /\ initialPinchZoom = 1000
    /\ initialPinchWorldPoint = Null
    /\ vertexDragStart = Null
    /\ touches = 0
    /\ steps = 0

\* The editing view with its panels is rendered only while there is a current
\* project and a current variation (App.tsx 721-724); each disjunct is one
\* handler, called as the panels call it.
NextApp ==
    \* the canvas and the polygon designer
    \/ currentVariation(projectsState) # Null /\ EnterPolygonEditMode
    \/ currentVariation(projectsState) # Null /\ MouseDown
    \/ currentVariation(projectsState) # Null /\ MouseUp
    \* handleAddObject, from the palette: a rectangle of 84 by 36 inches
    \/ /\ currentVariation(projectsState) # Null
       /\ LET newId == "obj-" \o ToString(projectsState.events + 1)
              obj == [PaletteRectangle(84, 36, maxZIndex + 1) EXCEPT !.id = newId]
          IN  setProjectsState(
                  updateCurrentVariation(projectsState, space, Append(objects, obj)),
                  newId)
    \* handleDeleteObject, from the Properties panel of the selected object
    \/ /\ currentVariation(projectsState) # Null
       /\ ObjIndex(selectedObjectId) # 0
       /\ LET id == selectedObjectId
              kept == SelectSeq(objects, LAMBDA obj : obj.id # id)
          IN  setProjectsState(updateCurrentVariation(projectsState, space, kept),
                               IF selectedObjectId = id THEN NullId ELSE selectedObjectId)
    \* handleDuplicateObject, from the Properties panel of the selected object
    \/ /\ currentVariation(projectsState) # Null
       /\ ObjIndex(selectedObjectId) # 0
       /\ LET newId == "obj-" \o ToString(projectsState.events + 1)
              objectToDuplicate == objects[ObjIndex(selectedObjectId)]
              duplicatedObject ==
                  [objectToDuplicate EXCEPT
                      !.id = newId,
                      !.position = Pt(objectToDuplicate.position.x + 120,
                                      objectToDuplicate.position.y + 120),
                      !.zIndex = maxZIndex + 1]
          IN  setProjectsState(
                  updateCurrentVariation(projectsState, space,
                                          Append(objects, duplicatedObject)),
                  newId)
    \* handleUpdateState, from the JSON editor: any text that parseAppState
    \* accepts (an outline of at least 3 points and a list of objects); here a
    \* triangular room without objects, and the default room with its corners
    \* listed from (1440,0)
    \/ /\ currentVariation(projectsState) # Null
       /\ \E newState \in { [space |-> << Pt(0, 0), Pt(1440, 0), Pt(0, 1200) >>,
                             objects |-> << >>],
                            [space |-> << Pt(1440, 0), Pt(1440, 1200), Pt(0, 1200), Pt(0, 0) >>,
                             objects |-> << DefaultSofa >>] } :
             setProjectsState(
                 updateCurrentVariation(projectsState, newState.space, newState.objects),
                 selectedObjectId)
    \* handleLoadSpace, from the library: the objects get new ids
    \/ /\ currentVariation(projectsState) # Null
       /\ \E spaceItem \in SpaceLibrary :
             LET newId(obj) == "obj-" \o ToString(projectsState.events + 1) \o "-" \o obj.id
                 newObjects == [k \in 1..Len(spaceItem.objects) |->
                                   [spaceItem.objects[k] EXCEPT
                                       !.id = newId(spaceItem.objects[k])]]
             IN  setProjectsState(
                     updateCurrentVariation(projectsState, spaceItem.space, newObjects),
                     selectedObjectId)
    \* handleSelectProject, from the project <select>: a project of the list
    \* or the placeholder option, whose value is the empty string
    \/ /\ currentVariation(projectsState) # Null
       /\ \E projectId \in { projectsState.projects[p].id :
                                p \in 1..Len(projectsState.projects) } \cup { "" } :
             LET hits == {p \in 1..Len(projectsState.projects) :
                             projectsState.projects[p].id = projectId}
                 project == projectsState.projects[CHOOSE p \in hits : TRUE]
             IN  IF hits = {} THEN setProjectsState(projectsState, selectedObjectId)
                 ELSE setProjectsState(
                          [projectsState EXCEPT
                              !.currentProjectId = projectId,
                              !.currentVariationId =
                                  IF Len(project.variations) > 0
                                  THEN project.variations[1].id ELSE NullId],
                          NullId)
    \* handleSelectVariation, from the variation <select>: a variation of the
    \* current project or the placeholder option, whose value is the empty string
    \/ /\ currentVariation(projectsState) # Null
       /\ \E variationId \in
             { Val(currentProject(projectsState)).variations[v].id :
                  v \in 1..Len(Val(currentProject(projectsState)).variations) } \cup { "" } :
             setProjectsState([projectsState EXCEPT !.currentVariationId = variationId],
                              NullId)
    \* handleCreateProject
    \/ /\ currentVariation(projectsState) # Null
       /\ LET projectId == "proj-" \o ToString(projectsState.events + 1)
              variationId == "var-" \o ToString(projectsState.events + 1)
              project == [id |-> projectId, name |-> "New Project",
                          variations |-> << [id |-> variationId, name |-> "Main",
                                             space |-> DefaultOutline,
                                             objects |-> << DefaultSofa >>] >>]
          IN  setProjectsState(
                  [projectsState EXCEPT
                      !.projects = Append(@, project),
                      !.currentProjectId = projectId,
                      !.currentVariationId = variationId],
                  NullId)
    \* handleCreateVariation: a copy of the current variation
    \/ /\ currentVariation(projectsState) # Null
       /\ LET variationId == "var-" \o ToString(projectsState.events + 1)
              newVariation == [id |-> variationId, name |-> "New Variation",
                               space |-> space, objects |-> objects]
              inProject(project) ==
                  IF project.id = projectsState.currentProjectId
                  THEN [project EXCEPT !.variations = Append(@, newVariation)]
                  ELSE project
          IN  setProjectsState(
                  [projectsState EXCEPT
                      !.projects = [p \in 1..Len(@) |-> inProject(@[p])],
                      !.currentVariationId = variationId],
                  NullId)
    \* handleRenameProject, for the current project
    \/ /\ currentVariation(projectsState) # Null
       /\ LET renamed(project) ==
                  IF project.id = projectsState.currentProjectId
                  THEN [project EXCEPT !.name = "Renamed"] ELSE project
          IN  setProjectsState(
                  [projectsState EXCEPT
                      !.projects = [p \in 1..Len(@) |-> renamed(@[p])]],
                  selectedObjectId)
    \* handleRenameVariation, for the current variation
    \/ /\ currentVariation(projectsState) # Null
       /\ LET renamed(variation) ==
                  IF variation.id = projectsState.currentVariationId
                  THEN [variation EXCEPT !.name = "Renamed"] ELSE variation
              inProject(project) ==
                  IF project.id = projectsState.currentProjectId
                  THEN [project EXCEPT !.variations =
                           [v \in 1..Len(@) |-> renamed(@[v])]]
                  ELSE project
          IN  setProjectsState(
                  [projectsState EXCEPT
                      !.projects = [p \in 1..Len(@) |-> inProject(@[p])]],
                  selectedObjectId)
    \* handleDeleteProject, for the current project
    \/ /\ currentVariation(projectsState) # Null
       /\ LET projectId == projectsState.currentProjectId
              remainingProjects ==
                  SelectSeq(projectsState.projects, LAMBDA p : p.id # projectId)
          IN  IF Len(remainingProjects) = 0
              THEN setProjectsState(projectsState, selectedObjectId)
              ELSE setProjectsState(
                       [projectsState EXCEPT
                           !.projects = remainingProjects,
                           !.currentProjectId = remainingProjects[1].id,
                           !.currentVariationId =
                               IF Len(remainingProjects[1].variations) > 0
                               THEN remainingProjects[1].variations[1].id ELSE NullId],
                       NullId)
    \* handleDeleteVariation, for the current variation
    \/ /\ currentVariation(projectsState) # Null
       /\ LET variationId == projectsState.currentVariationId
              remainingVariations ==
                  SelectSeq(Val(currentProject(projectsState)).variations,
                            LAMBDA v : v.id # variationId)
              inProject(project) ==
                  IF project.id = projectsState.currentProjectId
                  THEN [project EXCEPT !.variations = remainingVariations]
                  ELSE project
          IN  IF Len(Val(currentProject(projectsState)).variations) = 1
              THEN setProjectsState(projectsState, selectedObjectId)
              ELSE setProjectsState(
                       [projectsState EXCEPT
                           !.projects = [p \in 1..Len(@) |-> inProject(@[p])],
                           !.currentVariationId = remainingVariations[1].id],
                       NullId)

SpecApp == InitApp /\ [][NextApp]_vars


\* an index of the edit state is null or an index of the target polygon
ValidIndex(index) ==
    \/ index = NoIndex
    \/ getPolygonPoints # Null /\ 0 <= index /\ index < Len(Val(getPolygonPoints))

\* C36: while a polygon is being edited in the editing view, measurementEdgeIndex
\* and draggedVertexIndex are each null or an index into the target polygon's
\* points, and an object target is an object of the current variation.
C36_EditStateIsValid ==
    (polygonEditState # Null /\ currentVariation(projectsState) # Null) =>
        /\ PES.target.type = "object" => ObjIndex(PES.target.objectId) # 0
        /\ ValidIndex(PES.measurementEdgeIndex)
        /\ ValidIndex(PES.draggedVertexIndex)

\* the part of C36 about the indices alone, for an edit of the room
C36_SpaceIndicesValid ==
    (polygonEditState # Null /\ PES.target.type = "space" /\ currentVariation(projectsState) # Null)
        => ValidIndex(PES.measurementEdgeIndex)

\* C38: the project list is not empty, every project has a variation, and the
\* current ids name a project of the list and one of its variations.
C38_CurrentIdsValid ==
    /\ Len(projectsState.projects) >= 1
    /\ \A p \in 1..Len(projectsState.projects) :
          Len(projectsState.projects[p].variations) >= 1
    /\ currentProject(projectsState) # Null
    /\ currentVariation(projectsState) # Null

\* the lists stay non-empty and the current project stays valid; the current
\* variation is lost only by choosing the placeholder of the variation list
C38_ValidButForPlaceholder ==
    /\ Len(projectsState.projects) >= 1
    /\ \A p \in 1..Len(projectsState.projects) :
          Len(projectsState.projects[p].variations) >= 1
    /\ currentProject(projectsState) # Null
    /\ currentVariation(projectsState) # Null \/ projectsState.currentVariationId = ""

\* C39: selectedObjectId is null or the id of an object of the current
\* variation.
C39_SelectionValid ==
    selectedObjectId = NullId \/ ObjIndex(selectedObjectId) # 0


-----------------------------------------------------------------------------

(* Two mousemove events handled by the handlers of one render.  Both calls *)
(* read the dragStart, the viewport, the objects and the outline of that   *)
(* render; the updater that the panning branch passes to setViewport is    *)
(* applied to the viewport the first call left, and of the two positions   *)
(* sent to onUpdateObjectPosition the second is the one that stays.        *)
MouseMoveTwice ==
    /\ Step
    /\ dragStart # Null
    /\ mode \in {"panning", "dragging-object"}
    /\ \E first \in Pts, second \in Pts :
          LET dx(screenPoint) == screenPoint.x - Val(dragStart).x
              dy(screenPoint) == screenPoint.y - Val(dragStart).y
              worldDx(screenPoint) == Round(dx(screenPoint) * 10000, ScaleZoom(viewport))
              worldDy(screenPoint) == Round(dy(screenPoint) * 10000, ScaleZoom(viewport))
              desiredPosition(screenPoint) ==
                  Pt(AnchorPlusDelta(Val(dragObjectStartPos).x, dx(screenPoint), viewport),
                     AnchorPlusDelta(Val(dragObjectStartPos).y, dy(screenPoint), viewport))
          IN  /\ probe' = [fn |-> "MouseMoveTwice", first |-> first, second |-> second,
                           at |-> steps + 1]
              /\ IF mode = "panning"
                 THEN /\ viewport' =
                            [viewport EXCEPT
                                !.offsetX = @ + worldDx(first) + worldDx(second),
                                !.offsetY = @ + worldDy(first) + worldDy(second)]
                      /\ dragStart' = Some(second)
                      /\ UNCHANGED objects
                 ELSE /\ IF draggedObjectId # NullId /\ dragObjectStartPos # Null
                            /\ ObjIndex(draggedObjectId) # 0
                         THEN handleUpdateObjectPosition(draggedObjectId,
                                  constrainPositionToSpace(objects[ObjIndex(draggedObjectId)],
                                                           desiredPosition(second), space))
                         ELSE UNCHANGED objects
                      /\ UNCHANGED <<viewport, dragStart>>
    /\ UNCHANGED <<space, selectedObjectId, polygonEditState, mode, draggedObjectId,
                   dragObjectStartPos, rotationStartAngle, vertexDragStart, pinchVars,
                   touches>>

NextRender ==
    \/ MouseDown
    \/ MouseMove
    \/ MouseUp
    \/ MouseMoveTwice

SpecRender == Init /\ [][NextRender]_vars

\* the viewport after a mousemove of the panning branch with a re-render
\* before it
PannedTo(v, from, to) ==
    [v EXCEPT !.offsetX = @ + Round((to.x - from.x) * 10000, ScaleZoom(v)),
              !.offsetY = @ + Round((to.y - from.y) * 10000, ScaleZoom(v))]

\* the position of the dragged object after a mousemove of the dragging-object
\* branch
DraggedTo(obj, to) ==
    constrainPositionToSpace(obj,
        Pt(AnchorPlusDelta(Val(dragObjectStartPos).x, to.x - Val(dragStart).x, viewport),
           AnchorPlusDelta(Val(dragObjectStartPos).y, to.y - Val(dragStart).y, viewport)),
        space)

\* two mousemove events were handled by the handlers of one render
TwoMovesInOneRender == probe' # probe /\ probe'.fn = "MouseMoveTwice"

\* C37: two pointer-moves handled by the handlers of one render leave the
\* viewport offset of a pan, and the position of a dragged object, as two moves
\* with a re-render between them do.
C37_RenderInsensitive ==
    [][TwoMovesInOneRender =>
         /\ mode = "panning" =>
               viewport' = PannedTo(PannedTo(viewport, Val(dragStart), probe'.first),
                                    probe'.first, probe'.second)
         /\ (mode = "dragging-object" /\ ObjIndex(draggedObjectId) # 0) =>
               objects'[ObjIndex(draggedObjectId)].position =
                   DraggedTo([objects[ObjIndex(draggedObjectId)] EXCEPT
                                 !.position = DraggedTo(objects[ObjIndex(draggedObjectId)],
                                                        probe'.first)],
                             probe'.second)]_vars

\* the part of C37 about the pan
C37_PanInsensitive ==
    [][(TwoMovesInOneRender /\ mode = "panning") =>
           viewport' = PannedTo(PannedTo(viewport, Val(dragStart), probe'.first),
                                probe'.first, probe'.second)]_vars

\* the part of C37 about the dragged object
C37_ObjectDragInsensitive ==
    [][(TwoMovesInOneRender /\ mode = "dragging-object" /\ ObjIndex(draggedObjectId) # 0) =>
           objects'[ObjIndex(draggedObjectId)].position =
               DraggedTo([objects[ObjIndex(draggedObjectId)] EXCEPT
                             !.position = DraggedTo(objects[ObjIndex(draggedObjectId)],
                                                    probe'.first)],
                         probe'.second)]_vars

====
